---- MODULE Spec2Model ----
(***************************************************************************)
(* A model of sisl's FDF sile (sisl/io/siesta/fdf.py, class fdfSileSiesta): *)
(* the label store (_read_label with %include, %block and '<' pipes),       *)
(* the type coercion (_type, get) and the resolution pipeline (read_X      *)
(* with its order list and per-source readers).                            *)
(*                                                                         *)
(* Text is modelled at character level: a string is a sequence of          *)
(* one-character strings, a file is a sequence of lines (each without its  *)
(* newline), and the file system maps file names to files.                 *)
(***************************************************************************)
EXTENDS Naturals, Integers, Sequences, FiniteSets, TLC

VARIABLES
    fs,         \* label store: file name -> sequence of lines (the files that exist)
    parent_fh,  \* fdfSileSiesta._parent_fh: stack of the handles pushed by _pushfile
    nopen,      \* number of file handles opened by the store and not yet closed
    present,    \* resolution: suffixes s for which the file <SystemLabel>.s exists
    fdfKeys,    \* resolution: the labels the primary file defines (get(label) is not None)
    sparse,     \* reconciliation: the sparse quantity read from a matrix file, with its geometry
    call        \* the last public call: its arguments and its outcome

vars == <<fs, parent_fh, nopen, present, fdfKeys, sparse, call>>

(***************************************************************************)
(* Bounds of the model.                                                    *)
(***************************************************************************)
MaxOrder == 2       \* longest order list a caller passes
MaxPresent == 2     \* most companion files present at once

(***************************************************************************)
(* Values: Python's None, a returned object, a raised exception.           *)
(***************************************************************************)
None == [k |-> "None"]
Val(q, src) == [k |-> "val", q |-> q, src |-> src]
Raise(e) == [k |-> "raise", e |-> e]
IsRaise(v) == v.k = "raise"

\* The outcome of a reader: what it returns (or raises) and the companion
\* files whose readers it delegated to, in call order.
Out(v, log) == [ret |-> v, log |-> log]

NoCall == [op |-> "none"]

(***************************************************************************)
(* Text.  A string is a sequence of one-character strings.                 *)
(***************************************************************************)
\* the characters str.split() and str.strip() treat as white space
WS == {" ", "\n"}

Digits == {"0", "1", "2", "3", "4", "5", "6", "7", "8", "9"}

UpperCase == <<"A", "B", "C", "D", "E", "F", "G", "H", "I", "J", "K", "L", "M",
               "N", "O", "P", "Q", "R", "S", "T", "U", "V", "W", "X", "Y", "Z">>
LowerCase == <<"a", "b", "c", "d", "e", "f", "g", "h", "i", "j", "k", "l", "m",
               "n", "o", "p", "q", "r", "s", "t", "u", "v", "w", "x", "y", "z">>

\* str.lower() on one character
LowerMap == [i \in 1..Len(UpperCase) |-> LowerCase[i]]
lower_char(c) ==
    IF \E i \in 1..Len(UpperCase) : UpperCase[i] = c
    THEN LowerMap[CHOOSE i \in 1..Len(UpperCase) : UpperCase[i] = c]
    ELSE c

\* str.lower()
str_lower(s) == [i \in 1..Len(s) |-> lower_char(s[i])]

\* str.replace(c, '') for c in a set of characters
Without(s, cs) == SelectSeq(s, LAMBDA c : c \notin cs)

\* s[n:]
Drop(s, n) == SubSeq(s, n + 1, Len(s))

\* the first index from i on of a character of s that is (inside) or is not
\* (~inside) in cs; Len(s) + 1 when there is none
RECURSIVE Find(_, _, _, _)
Find(s, cs, inside, i) ==
    IF i > Len(s) \/ ((s[i] \in cs) = inside) THEN i
    ELSE Find(s, cs, inside, i + 1)

\* the last index down from i of a character of s that is not in cs; 0 when none
RECURSIVE FindBack(_, _, _)
FindBack(s, cs, i) ==
    IF i = 0 \/ s[i] \notin cs THEN i ELSE FindBack(s, cs, i - 1)

\* str.strip()
strip_from(s, first) ==
    IF first > Len(s) THEN <<>> ELSE SubSeq(s, first, FindBack(s, WS, Len(s)))

strip(s) == strip_from(s, Find(s, WS, FALSE, 1))

\* the length of the longest prefix of s with no character of cs
UntilLen(s, cs) == Find(s, cs, TRUE, 1) - 1

\* str.split(): the white-space separated tokens, those from index i on
RECURSIVE split_from(_, _)
split_token(s, first, end) ==
    <<SubSeq(s, first, end - 1)>> \o split_from(s, end)

split_at(s, first) ==
    IF first > Len(s) THEN <<>> ELSE split_token(s, first, Find(s, WS, TRUE, first))

split_from(s, i) == split_at(s, Find(s, WS, FALSE, i))

split(s) == split_from(s, 1)

\* s.split('#')[0]
before_hash(s) == SubSeq(s, 1, UntilLen(s, {"#"}))

\* ' '.join(toks)
RECURSIVE join(_)
join(toks) ==
    IF toks = <<>> THEN <<>>
    ELSE IF Len(toks) = 1 THEN toks[1]
    ELSE toks[1] \o <<" ">> \o join(Tail(toks))

\* str.startswith(p)
startswith(s, p) == Len(s) >= Len(p) /\ SubSeq(s, 1, Len(p)) = p

\* x in seq
In(x, seq) == \E i \in 1..Len(seq) : seq[i] = x

\* seq.index(x)
index(seq, x) == CHOOSE i \in 1..Len(seq) : seq[i] = x /\ \A j \in 1..(i - 1) : seq[j] # x

(***************************************************************************)
(* Label store: fdfSileSiesta._read_label and what it calls.               *)
(*                                                                         *)
(* F is the file system: file name -> sequence of lines.  A handle is      *)
(* [file, pos], pos being the number of lines read.  A store is            *)
(* [fh, stack, n, warned]: self.fh, self._parent_fh, the number of handles *)
(* the store has opened and not closed, and the files warn() has named.    *)
(***************************************************************************)
Str(v) == [k |-> "str", v |-> v]
Blk(v) == [k |-> "blk", v |-> v]
\* the call does not return
Hang == [k |-> "hang"]

\* self._comment
_comment == {"#", "!", ";"}

BLOCK == <<"%", "b", "l", "o", "c", "k">>
ENDBLOCK == <<"%", "e", "n", "d", "b", "l", "o", "c", "k">>
INCLUDE == <<"%", "i", "n", "c", "l", "u", "d", "e">>
PIPE == <<"<">>

\* the primary file of the store
Main == <<"m", "a", "i", "n">>

Handle(f) == [file |-> f, pos |-> 0]

\* self._tofile(f): f in the store's directory, which is where F's names live
_tofile(f) == f

\* osp.isfile(self._tofile(f))
isfile_fs(F, f) == _tofile(f) \in DOMAIN F

\* label.lower().replace('_', '').replace('-', '').replace('.', '')
tolabelKeepDash(label) == Without(str_lower(label), {"_", "."})

tolabel(label) == Without(str_lower(label), {"_", "-", "."})

\* starts_with_list(l, self._comment): l.strip() starts with a comment marker
starts_with_list(l) == strip(l) # <<>> /\ strip(l)[1] \in _comment

\* self.fh.readline(): the next line with its newline, '' at the end of the file
fh_readline(F, h) ==
    IF h.pos >= Len(F[h.file])
    THEN [line |-> <<>>, fh |-> h]
    ELSE [line |-> F[h.file][h.pos + 1] \o <<"\n">>, fh |-> [h EXCEPT !.pos = h.pos + 1]]

\* Sile.readline(): self.fh.readline(), again while the line is a comment line
RECURSIVE readline(_, _)
readline_skip(F, r) == IF starts_with_list(r.line) THEN readline(F, r.fh) ELSE r

readline(F, h) == readline_skip(F, fh_readline(F, h))

\* def valid_line(line)
valid_lineKeepComments(line) == Len(strip(line)) # 0

valid_line(line) ==
    IF Len(strip(line)) = 0 THEN FALSE ELSE strip(line)[1] \notin _comment

\* self._pushfile(f)
_pushfileSkipRest(F, st, f) ==
    IF isfile_fs(F, f)
    THEN [st EXCEPT !.fh = Handle(_tofile(f)), !.stack = Append(st.stack, st.fh), !.n = st.n + 1]
    ELSE [st EXCEPT !.fh = [st.fh EXCEPT !.pos = Len(F[st.fh.file])], !.warned = Append(@, f)]

_pushfile(F, st, f) ==
    IF isfile_fs(F, f)
    THEN [st EXCEPT !.fh = Handle(_tofile(f)), !.stack = Append(st.stack, st.fh), !.n = st.n + 1]
    ELSE [st EXCEPT !.warned = Append(@, f)]

\* self._popfile() when it returns True (the stack is not empty)
_popfile(st) ==
    [st EXCEPT !.fh = st.stack[Len(st.stack)],
               !.stack = SubSeq(st.stack, 1, Len(st.stack) - 1),
               !.n = st.n - 1]

\* self._seek(): pop every stacked handle, then self.fh.seek(0)
RECURSIVE _seek(_)
_seek(st) ==
    IF Len(st.stack) > 0 THEN _seek(_popfile(st))
    ELSE [st EXCEPT !.fh = [@ EXCEPT !.pos = 0]]

\* what process_line gives: the value (None: not on this line), the store after
\* it, the kind of entry matched and the handle just after the matched line
Line(ret, st, kind) == [ret |-> ret, st |-> st, kind |-> kind, at |-> st.fh]
NoMatch(st) == Line(None, st, "none")

\* [l.strip() for l in lines if valid_line(l)]
stripped_valid(lines) ==
    LET kept == SelectSeq(lines, valid_line)
    IN  [i \in 1..Len(kept) |-> strip(kept[i])]

\* the body of a block: lines up to the one that starts with %endblock, stripped,
\* the empty ones dropped.  At the end of the file readline() gives '' for ever.
RECURSIVE read_block(_, _, _)
read_block_lineVerbatim(F, r, lines) ==
    IF r.line = <<>> THEN [ret |-> Hang, fh |-> r.fh]
    ELSE IF startswith(tolabel(strip(r.line)), ENDBLOCK) THEN [ret |-> Blk(lines), fh |-> r.fh]
    ELSE read_block(F, r.fh, Append(lines, SubSeq(r.line, 1, Len(r.line) - 1)))

read_block_line(F, r, lines) ==
    IF r.line = <<>> THEN [ret |-> Hang, fh |-> r.fh]
    ELSE IF startswith(tolabel(strip(r.line)), ENDBLOCK) THEN [ret |-> Blk(lines), fh |-> r.fh]
    ELSE read_block(F, r.fh,
                    IF Len(strip(r.line)) > 0 THEN Append(lines, strip(r.line)) ELSE lines)

read_block(F, h, lines) == read_block_line(F, readline(F, h), lines)

block_found(st, b) == [Line(b.ret, st, "block") EXCEPT !.st = [st EXCEPT !.fh = b.fh]]

\* fdfSileSiesta(file, base=...)._read_label(label): a fresh store on file
RECURSIVE fresh_read_label(_, _, _)

\* the value a fresh store found: None leaves the line unmatched
piped_found(st, sub) ==
    IF sub.ret = None THEN NoMatch([st EXCEPT !.warned = @ \o sub.warned])
    ELSE Line(sub.ret, [st EXCEPT !.warned = @ \o sub.warned], "pipescalar")

\* process_line, a line with a '<' token at idx
pipe_line(F, st, ls, lsl, label, idx) ==
    IF lsl[1] = BLOCK /\ lsl[2] = tolabel(label)
    THEN IF Len(ls) < 4 THEN Line(Raise("IndexError"), st, "pipeblock")
         ELSE IF ~isfile_fs(F, ls[4]) THEN Line(Raise("IOError"), st, "pipeblock")
         ELSE Line(Blk(stripped_valid(F[_tofile(ls[4])])), st, "pipeblock")
    ELSE IF In(tolabel(label), SubSeq(lsl, 1, idx - 1))
    THEN IF Len(ls) < idx + 1 THEN Line(Raise("IndexError"), st, "pipescalar")
         ELSE piped_found(st, fresh_read_label(F, _tofile(ls[idx + 1]), label))
    ELSE NoMatch(st)

\* process_line, from "lsl = list(map(tolabel, ls))" on
process_tokens(F, st, ls, lsl, label) ==
    IF In(PIPE, lsl) THEN pipe_line(F, st, ls, lsl, label, index(lsl, PIPE))
    ELSE IF lsl[1] = tolabel(label) THEN Line(Str(strip(join(Tail(ls)))), st, "scalar")
    ELSE IF lsl[1] = BLOCK
    THEN IF Len(lsl) < 2 THEN Line(Raise("IndexError"), st, "block")
         ELSE IF lsl[2] = tolabel(label) THEN block_found(st, read_block(F, st.fh, <<>>))
         ELSE NoMatch(st)
    ELSE IF lsl[1] = INCLUDE
    THEN IF Len(ls) < 2 THEN Line(Raise("IndexError"), st, "include")
         ELSE NoMatch(_pushfile(F, st, ls[2]))
    ELSE NoMatch(st)

\* def process_line(line)
process_split(F, st, ls, label) ==
    IF Len(ls) = 0 THEN NoMatch(st)
    ELSE process_tokens(F, st, ls, [i \in 1..Len(ls) |-> tolabel(ls[i])], label)

process_line(F, st, line, label) == process_split(F, st, split(line), label)

\* while l is None: l = self.readline().split('#')[0]; ...
RECURSIVE scan(_, _, _)
scan_next(F, found, label) ==
    IF found.ret # None THEN found ELSE scan(F, found.st, label)

scan_endNoPop(F, st, label) == NoMatch(st)

scan_end(F, st, label) ==
    IF Len(st.stack) = 0 THEN NoMatch(st)
    ELSE scan_next(F, process_line(F, _popfile(st), <<>>, label), label)

scan_line(F, st, l, label) ==
    IF Len(l) = 0 THEN scan_end(F, st, label)
    ELSE scan_next(F, process_line(F, st, l, label), label)

scan_read(F, st, r, label) ==
    scan_line(F, [st EXCEPT !.fh = r.fh], before_hash(r.line), label)

scan(F, st, label) == scan_read(F, st, readline(F, st.fh), label)

\* l = self.readline().split('#')[0]; if len(l) == 0: return None; l = process_line(l)
first_line(F, st, l, label) ==
    IF Len(l) = 0 THEN NoMatch(st)
    ELSE scan_next(F, process_line(F, st, l, label), label)

first_read(F, st, r, label) ==
    first_line(F, [st EXCEPT !.fh = r.fh], before_hash(r.line), label)

read_label_firstRaw(F, st, label) == first_read(F, st, fh_readline(F, st.fh), label)

read_label_first(F, st, label) == first_read(F, st, readline(F, st.fh), label)

\* def _read_label(self, label), on a store whose fh is open
_read_label(F, st, label) == read_label_first(F, _seek(st), label)

\* Sile.__exit__: self.fh.close(); del self.fh
sile_exit(found) == [found EXCEPT !.st = [@ EXCEPT !.n = @ - 1]]

\* what a fresh store gave: its value and the warnings it issued
fresh_result(found) == [ret |-> found.ret, warned |-> found.st.warned]

\* a fresh store on file, which the call opens, reads and leaves
fresh_read_label(F, file, label) ==
    IF file \notin DOMAIN F THEN [ret |-> Raise("IOError"), warned |-> <<>>]
    ELSE fresh_result(sile_exit(_read_label(F, [fh |-> Handle(file), stack |-> <<>>, n |-> 1,
                                                warned |-> <<>>], label)))

\* Sile_fh_open around a method of a store that was left with `stack` and n open
\* handles: "with self" opens the primary file
sile_enter(stack, n) ==
    [fh |-> Handle(Main), stack |-> stack, n |-> n + 1, warned |-> <<>>]

(***************************************************************************)
(* Resolution pipeline.                                                    *)
(***************************************************************************)
Suffixes == {"XV", "nc", "ORB_INDX", "FA", "FAC", "FC", "TSDE", "DM", "TSHS",
             "HSX", "ion", "grid.nc"}

\* str.lower() on the source identifiers a caller may pass
lower(f) ==
    CASE f = "XV" -> "xv"
      [] f = "ORB_INDX" -> "orb_indx"
      [] f = "FA" -> "fa"
      [] f = "FAC" -> "fac"
      [] f = "FC" -> "fc"
      [] f = "TSDE" -> "tsde"
      [] f = "DM" -> "dm"
      [] f = "TSHS" -> "tshs"
      [] f = "HSX" -> "hsx"
      [] OTHER -> f

\* isfile(self._tofile(self.get('SystemLabel', default='siesta')) + '.' + sfx)
isfile(sfx) == sfx \in present

\* self.get(label) is not None, on the primary file
has(label) == label \in fdfKeys

\* One turn of "for f in order: v = reader(f); if v is not None: return v", with
\* r the outcome of f's reader and rest the outcome of the remaining turns.
\* consulted: the sources whose reader the loop dispatched to, in order.
FirstOfStepLastWins(f, r, rest) ==
    IF rest.ret # None
    THEN [ret |-> rest.ret, consulted |-> <<f>> \o rest.consulted,
          log |-> r.log \o rest.log]
    ELSE [ret |-> r.ret, consulted |-> <<f>> \o rest.consulted, log |-> r.log]

FirstOfStep(f, r, rest) ==
    IF r.ret # None
    THEN [ret |-> r.ret, consulted |-> <<f>>, log |-> r.log]
    ELSE [ret |-> rest.ret, consulted |-> <<f>> \o rest.consulted,
          log |-> r.log \o rest.log]

\* for f in order: v = getattr(self, '_r_<q>_<f.lower()>')(...); ...; return None
\* (defined below, after the readers it dispatches to)
RECURSIVE FirstOf(_, _, _)

\* getattr(self, '_r_<q>_<f.lower()>') on a name the class does not define
AttributeError == Out(Raise("AttributeError"), <<>>)

\* ---- read_supercell_nsc
_r_supercell_nsc_nc ==
    IF isfile("nc") THEN Out(Val("nsc", "nc"), <<"nc">>) ELSE Out(None, <<>>)

_r_supercell_nsc_orb_indx ==
    IF isfile("ORB_INDX") THEN Out(Val("nsc", "ORB_INDX"), <<"ORB_INDX">>)
    ELSE Out(None, <<>>)

_r_supercell_nsc(f) ==
    CASE lower(f) = "nc" -> _r_supercell_nsc_nc
      [] lower(f) = "orb_indx" -> _r_supercell_nsc_orb_indx
      [] OTHER -> AttributeError

\* no source answered: warn and assume a molecule cell, _a.onesi(3)
OrOnes(r) == IF r.ret = None THEN [r EXCEPT !.ret = Val("nsc", "onesi")] ELSE r

read_supercell_nsc(order) == OrOnes(FirstOf("supercell_nsc", order, 1))

Order_supercell_nsc == <<"nc", "ORB_INDX">>

\* ---- read_basis
_r_basis_nc ==
    IF isfile("nc") THEN Out(Val("basis", "nc"), <<"nc">>) ELSE Out(None, <<>>)

_r_basis_ion ==
    IF ~has("ChemicalSpeciesLabel") THEN Out(None, <<>>)
    ELSE IF isfile("ion") THEN Out(Val("basis", "ion"), <<"ion">>)
    ELSE Out(None, <<>>)

_r_basis_orb_indx ==
    IF isfile("ORB_INDX") THEN Out(Val("basis", "ORB_INDX"), <<"ORB_INDX">>)
    ELSE Out(None, <<>>)

_r_basis_fdf ==
    IF ~has("ChemicalSpeciesLabel") THEN Out(None, <<>>)
    ELSE Out(Val("basis", "fdf"), <<>>)

_r_basis(f) ==
    CASE lower(f) = "nc" -> _r_basis_nc
      [] lower(f) = "ion" -> _r_basis_ion
      [] lower(f) = "orb_indx" -> _r_basis_orb_indx
      [] lower(f) = "fdf" -> _r_basis_fdf
      [] OTHER -> AttributeError

read_basis(order) == FirstOf("basis", order, 1)

Order_basis == <<"nc", "ion", "ORB_INDX", "fdf">>

\* ---- read_supercell
_r_supercell_fdf ==
    IF ~has("LatticeConstant")
    THEN Out(Raise("SileError: Could not find LatticeConstant in file"), <<>>)
    ELSE IF ~has("LatticeVectors") /\ ~has("LatticeParameters")
    THEN Out(Raise("SileError: Could not find LatticeVectors or LatticeParameters block in file"), <<>>)
    ELSE Out(Val("supercell", "fdf"), read_supercell_nsc(Order_supercell_nsc).log)

_r_supercell_nc ==
    IF isfile("nc") THEN Out(Val("supercell", "nc"), <<"nc">>) ELSE Out(None, <<>>)

_r_supercell_xv ==
    IF isfile("XV")
    THEN Out(Val("supercell", "XV"), read_supercell_nsc(Order_supercell_nsc).log \o <<"XV">>)
    ELSE Out(None, <<>>)

_r_supercell(f) ==
    CASE lower(f) = "fdf" -> _r_supercell_fdf
      [] lower(f) = "nc" -> _r_supercell_nc
      [] lower(f) = "xv" -> _r_supercell_xv
      [] OTHER -> AttributeError

read_supercell(order) == FirstOf("supercell", order, 1)

\* the default orders of read_supercell and read_geometry: output true / false
Order_output == <<"XV", "nc", "fdf">>
Order_fdf == <<"fdf">>

\* ---- read_geometry
_r_geometry_xv ==
    IF isfile("XV")
    THEN Out(Val("geometry", "XV"),
             read_basis(Order_basis).log \o <<"XV">>
                 \o read_supercell_nsc(Order_supercell_nsc).log)
    ELSE Out(None, <<>>)

_r_geometry_nc ==
    IF isfile("nc") THEN Out(Val("geometry", "nc"), <<"nc">>) ELSE Out(None, <<>>)

\* _r_geometry_fdf after sc = self.read_supercell(order=['fdf'])
_r_geometry_fdf_atoms(sc) ==
    IF IsRaise(sc.ret) THEN Out(sc.ret, sc.log)
    ELSE IF ~has("AtomicCoordinatesAndAtomicSpecies")
    THEN Out(Raise("SileError: AtomicCoordinatesAndAtomicSpecies block could not be found"), sc.log)
    ELSE Out(Val("geometry", "fdf"), sc.log \o read_basis(Order_basis).log)

_r_geometry_fdf == _r_geometry_fdf_atoms(read_supercell(Order_fdf))

_r_geometry(f) ==
    CASE lower(f) = "xv" -> _r_geometry_xv
      [] lower(f) = "nc" -> _r_geometry_nc
      [] lower(f) = "fdf" -> _r_geometry_fdf
      [] OTHER -> AttributeError

read_geometry(order) == FirstOf("geometry", order, 1)

\* ---- read_force
_r_force_fa ==
    IF isfile("FA") THEN Out(Val("force", "FA"), <<"FA">>) ELSE Out(None, <<>>)

_r_force_fac ==
    IF isfile("FAC") THEN Out(Val("force", "FAC"), <<"FAC">>) ELSE Out(None, <<>>)

_r_force_nc ==
    IF isfile("nc") THEN Out(Val("force", "nc"), <<"nc">>) ELSE Out(None, <<>>)

_r_force(f) ==
    CASE lower(f) = "fa" -> _r_force_fa
      [] lower(f) = "fac" -> _r_force_fac
      [] lower(f) = "nc" -> _r_force_nc
      [] OTHER -> AttributeError

read_force(order) == FirstOf("force", order, 1)

Order_force == <<"FA", "nc">>

\* ---- read_force_constant
_r_force_constant_fc ==
    IF isfile("FC")
    THEN IF ~has("MD.FCFirst") \/ ~has("MD.FCLast")
         THEN Out(Raise("SislError: requires FCFirst/FCLast to be set correctly"), <<"FC">>)
         ELSE Out(Val("force_constant", "FC"), <<"FC">>)
    ELSE Out(None, <<>>)

_r_force_constant(f) ==
    CASE lower(f) = "fc" -> _r_force_constant_fc
      [] OTHER -> AttributeError

read_force_constant(order) == FirstOf("force_constant", order, 1)

Order_fc == <<"FC">>

\* ---- read_hessian
\* a reader that has read v from its companion file (pre: the delegations so
\* far) and then needs the geometry geom = self.read_geometry(...)
AfterGeometry(v, pre, geom) ==
    IF IsRaise(geom.ret) THEN Out(geom.ret, pre \o geom.log)
    ELSE Out(v, pre \o geom.log)

\* _r_hessian_fc after fc = self._r_force_constant_fc(...)
_r_hessian_fc_build(fc) ==
    IF fc.ret = None THEN Out(None, fc.log)
    ELSE IF IsRaise(fc.ret) THEN fc
    ELSE AfterGeometry(Val("hessian", "FC"), fc.log, read_geometry(Order_fdf))

_r_hessian_fc == _r_hessian_fc_build(_r_force_constant_fc)

_r_hessian(f) ==
    CASE lower(f) = "fc" -> _r_hessian_fc
      [] OTHER -> AttributeError

read_hessian(order) == FirstOf("hessian", order, 1)

\* a companion matrix reader followed by self.read_geometry(True), whose
\* geometry the matrix is reconciled with
WithGeometry(q, sfx) ==
    IF isfile(sfx)
    THEN AfterGeometry(Val(q, sfx), <<sfx>>, read_geometry(Order_output))
    ELSE Out(None, <<>>)

\* ---- read_density_matrix
_r_density_matrix_nc ==
    IF isfile("nc") THEN Out(Val("density_matrix", "nc"), <<"nc">>) ELSE Out(None, <<>>)

_r_density_matrix_tsde == WithGeometry("density_matrix", "TSDE")

_r_density_matrix_dm == WithGeometry("density_matrix", "DM")

_r_density_matrix(f) ==
    CASE lower(f) = "nc" -> _r_density_matrix_nc
      [] lower(f) = "tsde" -> _r_density_matrix_tsde
      [] lower(f) = "dm" -> _r_density_matrix_dm
      [] OTHER -> AttributeError

read_density_matrix(order) == FirstOf("density_matrix", order, 1)

Order_density_matrix == <<"nc", "TSDE", "DM">>

\* ---- read_energy_density_matrix
_r_energy_density_matrix_nc ==
    IF isfile("nc") THEN Out(Val("energy_density_matrix", "nc"), <<"nc">>)
    ELSE Out(None, <<>>)

_r_energy_density_matrix_tsde == WithGeometry("energy_density_matrix", "TSDE")

_r_energy_density_matrix(f) ==
    CASE lower(f) = "nc" -> _r_energy_density_matrix_nc
      [] lower(f) = "tsde" -> _r_energy_density_matrix_tsde
      [] OTHER -> AttributeError

read_energy_density_matrix(order) == FirstOf("energy_density_matrix", order, 1)

Order_energy_density_matrix == <<"nc", "TSDE">>

\* ---- read_hamiltonian
_r_hamiltonian_nc ==
    IF isfile("nc") THEN Out(Val("hamiltonian", "nc"), <<"nc">>) ELSE Out(None, <<>>)

_r_hamiltonian_tshsNoProbe ==
    AfterGeometry(Val("hamiltonian", "TSHS"), <<"TSHS">>, read_geometry(Order_output))

_r_hamiltonian_tshs == WithGeometry("hamiltonian", "TSHS")

_r_hamiltonian_hsx == WithGeometry("hamiltonian", "HSX")

_r_hamiltonian(f) ==
    CASE lower(f) = "nc" -> _r_hamiltonian_nc
      [] lower(f) = "tshs" -> _r_hamiltonian_tshs
      [] lower(f) = "hsx" -> _r_hamiltonian_hsx
      [] OTHER -> AttributeError

read_hamiltonian(order) == FirstOf("hamiltonian", order, 1)

Order_hamiltonian == <<"nc", "TSHS", "HSX">>

\* ---- read_grid
_r_grid_nc ==
    IF isfile("nc") THEN Out(Val("grid", "nc"), <<"nc">>) ELSE Out(None, <<>>)

\* the grid is read and given its geometry, and then None is returned
_r_grid_grid_nc ==
    IF isfile("grid.nc")
    THEN AfterGeometry(None, <<"grid.nc">>, read_geometry(Order_output))
    ELSE Out(None, <<>>)

\* '_r_grid_' + 'grid.nc' names no method: only 'grid_nc' reaches _r_grid_grid_nc
_r_grid(f) ==
    CASE lower(f) = "nc" -> _r_grid_nc
      [] lower(f) = "grid_nc" -> _r_grid_grid_nc
      [] OTHER -> AttributeError

read_grid(order) == FirstOf("grid", order, 1)

Order_grid == <<"nc", "grid.nc">>

\* ---- the entry points, by name
Entries == {"supercell", "geometry", "basis", "force", "force_constant", "hessian",
            "density_matrix", "energy_density_matrix", "hamiltonian", "grid"}

\* the source identifiers a caller passes to each entry point
SourcesOf(q) ==
    CASE q \in {"supercell", "geometry"} -> {"XV", "nc", "fdf"}
      [] q = "basis" -> {"nc", "ion", "ORB_INDX", "fdf"}
      [] q = "force" -> {"FA", "FAC", "nc"}
      [] q \in {"force_constant", "hessian"} -> {"FC"}
      [] q = "density_matrix" -> {"nc", "TSDE", "DM"}
      [] q = "energy_density_matrix" -> {"nc", "TSDE"}
      [] q = "hamiltonian" -> {"nc", "TSHS", "HSX"}
      [] q = "grid" -> {"nc", "grid.nc", "grid_nc"}

\* the per-source reader an entry point dispatches to
Reader(q, f) ==
    CASE q = "supercell_nsc" -> _r_supercell_nsc(f)
      [] q = "supercell" -> _r_supercell(f)
      [] q = "geometry" -> _r_geometry(f)
      [] q = "basis" -> _r_basis(f)
      [] q = "force" -> _r_force(f)
      [] q = "force_constant" -> _r_force_constant(f)
      [] q = "hessian" -> _r_hessian(f)
      [] q = "density_matrix" -> _r_density_matrix(f)
      [] q = "energy_density_matrix" -> _r_energy_density_matrix(f)
      [] q = "hamiltonian" -> _r_hamiltonian(f)
      [] q = "grid" -> _r_grid(f)

FirstOf(q, order, i) ==
    IF i > Len(order)
    THEN [ret |-> None, consulted |-> <<>>, log |-> <<>>]
    ELSE FirstOfStep(order[i], Reader(q, order[i]), FirstOf(q, order, i + 1))

read_X(q, order) ==
    CASE q = "supercell" -> read_supercell(order)
      [] q = "geometry" -> read_geometry(order)
      [] q = "basis" -> read_basis(order)
      [] q = "force" -> read_force(order)
      [] q = "force_constant" -> read_force_constant(order)
      [] q = "hessian" -> read_hessian(order)
      [] q = "density_matrix" -> read_density_matrix(order)
      [] q = "energy_density_matrix" -> read_energy_density_matrix(order)
      [] q = "hamiltonian" -> read_hamiltonian(order)
      [] q = "grid" -> read_grid(order)

DefaultOrder(q) ==
    CASE q \in {"supercell", "geometry"} -> Order_fdf
      [] q = "basis" -> Order_basis
      [] q = "force" -> Order_force
      [] q \in {"force_constant", "hessian"} -> Order_fc
      [] q = "density_matrix" -> Order_density_matrix
      [] q = "energy_density_matrix" -> Order_energy_density_matrix
      [] q = "hamiltonian" -> Order_hamiltonian
      [] q = "grid" -> Order_grid

SeqsUpTo(S, n) == UNION {[1..m -> S] : m \in 0..n}

\* the primary files of the resolution model, by the labels they define
FdfDocs ==
    LET cell == {"LatticeConstant", "LatticeVectors"}
        geom == cell \cup {"AtomicCoordinatesAndAtomicSpecies"}
    IN  { {}, {"LatticeConstant"}, cell, {"LatticeConstant", "LatticeParameters"},
          geom, geom \cup {"ChemicalSpeciesLabel"},
          geom \cup {"ChemicalSpeciesLabel", "MD.FCFirst", "MD.FCLast"} }

\* the record of a call of read_X
Called(q, order, r) ==
    [op |-> q, order |-> order, ret |-> r.ret, consulted |-> r.consulted, log |-> r.log]

InitResolve ==
    /\ present \in {S \in SUBSET Suffixes : Cardinality(S) <= MaxPresent}
    /\ fdfKeys \in FdfDocs
    /\ sparse = None
    /\ fs = <<>>
    /\ parent_fh = <<>>
    /\ nopen = 0
    /\ call = NoCall

\* read_X(order=order)
ReadOrdered ==
    /\ call = NoCall
    /\ \E q \in Entries : \E order \in SeqsUpTo(SourcesOf(q), MaxOrder) :
         call' = Called(q, order, read_X(q, order))
    /\ UNCHANGED <<fs, parent_fh, nopen, present, fdfKeys, sparse>>

\* read_X() with the default order
ReadDefault ==
    /\ call = NoCall
    /\ \E q \in Entries :
         call' = Called(q, DefaultOrder(q), read_X(q, DefaultOrder(q)))
    /\ UNCHANGED <<fs, parent_fh, nopen, present, fdfKeys, sparse>>

NextResolve == ReadOrdered \/ ReadDefault

SpecResolve == InitResolve /\ [][NextResolve]_vars

IsResolveCall == call.op \in Entries

\* the positions of the order list whose reader does not yield None
Hits(q, order) == {j \in 1..Len(order) : Reader(q, order[j]).ret # None}

\* C1: every read_X returns the result of the first source of the order list
\* whose per-source reader yields a non-None result (None when there is none),
\* and the readers consulted are exactly those up to and including that source.
C1_FirstSourceWins ==
    IsResolveCall =>
        LET hits == Hits(call.op, call.order)
        IN  IF hits = {}
            THEN call.ret = None /\ call.consulted = call.order
            ELSE LET j == CHOOSE x \in hits : \A y \in hits : x <= y
                 IN  /\ call.ret = Reader(call.op, call.order[j]).ret
                     /\ call.consulted = SubSeq(call.order, 1, j)

\* two sources of the list are present and the first of them, which is not the
\* head of the list's alphabet order, has answered; a later source was not consulted
C1_Witness ==
    /\ IsResolveCall
    /\ Len(call.order) = 2
    /\ call.order[1] # call.order[2]
    /\ Reader(call.op, call.order[2]).ret.k = "val"
    /\ call.ret.k = "val"
    /\ call.ret.src = call.order[1]
    /\ call.consulted = <<call.order[1]>>

\* the companion file a source identifier stands for
CompanionIds == {"XV", "nc", "FA", "FAC", "FC", "TSDE", "DM", "TSHS", "HSX"}

C2_Entries == {"supercell", "geometry", "force", "force_constant", "hessian",
               "density_matrix", "energy_density_matrix", "hamiltonian"}

\* C2: with an order list of companion-file sources only, none of whose files
\* exists, the entry point returns None, raises nothing and delegates to no
\* companion reader.
C2_AbsentIsNone ==
    ( /\ call.op \in C2_Entries
      /\ \A i \in 1..Len(call.order) :
            call.order[i] \in CompanionIds /\ ~isfile(call.order[i]) )
    => call.ret = None /\ call.log = <<>>

\* read_hamiltonian(order=['TSHS']) with no .TSHS file, other files being present
C2_Witness ==
    /\ call.op = "hamiltonian"
    /\ call.order = <<"TSHS">>
    /\ ~isfile("TSHS")
    /\ present # {}
    /\ call.ret = None


(***************************************************************************)
(* The documents of the label-store model.                                 *)
(***************************************************************************)
\* the snippets a primary file is made of
S_scalar ==
    <<<<"L", "a", "b", "e", "l", " ", "7">>>>

S_respelled ==
    <<<<" ", " ", "L", "A", "_", "b", "e", "l", ".", " ", " ", "8", " ", "e", "V", " ", " ", "#", " ", "L", "a", "b", "e", "l", " ", "9">>>>

S_include ==
    <<<<"%", "i", "n", "c", "l", "u", "d", "e", " ", "i", "n", "c">>>>

S_include_missing ==
    <<<<>>,
      <<"%", "I", "N", "C", "L", "U", "D", "E", " ", "n", "o", "f", "i", "l", "e">>>>

S_comment ==
    <<<<"#", " ", "L", "a", "b", "e", "l", " ", "9">>,
      <<" ", " ", "!", " ", "%", "i", "n", "c", "l", "u", "d", "e", " ", "i", "n", "c">>>>

S_block ==
    <<<<"%", "b", "l", "o", "c", "k", " ", "L", "a", "b", "e", "l">>,
      <<" ", " ", "1", " ", "2", " ", " ">>,
      <<>>,
      <<";", " ", "L", "a", "b", "e", "l", " ", "9">>,
      <<"#", " ", "c">>,
      <<" ", "%", "E", "n", "d", "-", "B", "l", "o", "c", "k", " ", "L", "a", "b", "e", "l">>>>

S_block_open ==
    <<<<"%", "B", "l", "o", "c", "k", " ", "l", "a", "-", "b", "e", "l">>,
      <<"x">>>>

S_block_piped ==
    <<<<"%", "b", "l", "o", "c", "k", " ", "L", "a", ".", "b", "e", "l", " ", "<", " ", "e", "x", "t">>>>

S_piped ==
    <<<<"L", "a", "b", "e", "l", " ", "O", "t", "h", "e", "r", " ", "<", " ", "i", "n", "c">>>>

S_piped_missing ==
    <<<<"O", "t", "h", "e", "r", " ", "L", "a", "b", "e", "l", " ", "<", " ", "n", "o", "f", "i", "l", "e">>>>

Snippets ==
    {S_scalar,
     S_respelled,
     S_include,
     S_include_missing,
     S_comment,
     S_block,
     S_block_open,
     S_block_piped,
     S_piped,
     S_piped_missing}

\* the most snippets in a primary file
MaxSnips == 2

\* the lines of the snippets, in order
RECURSIVE Concat(_)
Concat(ss) == IF ss = <<>> THEN <<>> ELSE ss[1] \o Concat(Tail(ss))

Docs == {Concat(ss) : ss \in SeqsUpTo(Snippets, MaxSnips)}

\* the other files of the directory
Inc == <<"i", "n", "c">>
Sub == <<"s", "u", "b">>
Ext == <<"e", "x", "t">>

ExtLines ==
    <<<<" ", " ", "a", " ", "1", " ", " ">>,
      <<>>,
      <<"#", " ", "c">>,
      <<" ", " ", ";", " ", "d">>,
      <<"b", " ", "#", " ", "e">>>>

IncDefines ==
    <<<<"#", " ", "c">>,
      <<"%", "i", "n", "c", "l", "u", "d", "e", " ", "s", "u", "b">>,
      <<"L", "a", "b", "e", "l", " ", "3">>>>

SubOther ==
    <<<<"O", "t", "h", "e", "r", " ", "y">>,
      <<>>>>

IncNested ==
    <<<<"O", "t", "h", "e", "r", " ", "y">>,
      <<"%", "i", "n", "c", "l", "u", "d", "e", " ", "s", "u", "b">>>>

SubDefines ==
    <<<<"!", " ", "c">>,
      <<"l", "a", ".", "b", "e", "l", " ", "4">>,
      <<"O", "t", "h", "e", "r", " ", "z">>>>

IncOther ==
    <<<<";", " ", "c">>,
      <<"O", "t", "h", "e", "r", " ", "y">>>>

Worlds ==
    { (Inc :> IncDefines) @@ (Sub :> SubOther) @@ (Ext :> ExtLines),
      (Inc :> IncNested) @@ (Sub :> SubDefines) @@ (Ext :> ExtLines),
      (Inc :> IncOther) @@ (Ext :> ExtLines) }

\* the labels asked for
Labels ==
    {<<"L", "a", "b", "e", "l">>,
     <<"l", "a", "-", "b", "_", "E", "L", ".">>,
     <<"O", "t", "h", "e", "r">>}

\* the record of a call of _read_label and the store it leaves
LabelCalled(label, found) ==
    [op |-> "_read_label", label |-> label, ret |-> found.ret, kind |-> found.kind,
     at |-> found.at, stack |-> found.st.stack, n |-> found.st.n,
     warned |-> found.st.warned]

InitLabel ==
    /\ fs \in {w @@ (Main :> d) : w \in Worlds, d \in Docs}
    /\ parent_fh = <<>>
    /\ nopen = 0
    /\ present = {}
    /\ fdfKeys = {}
    /\ sparse = None
    /\ call = NoCall

\* a call whose block never ends does not return
Hung == call # NoCall /\ call.ret = Hang

\* store._read_label(label), the store as the calls before left it
ReadLabel ==
    /\ ~Hung
    /\ \E label \in Labels :
         call' = LabelCalled(label,
                             sile_exit(_read_label(fs, sile_enter(parent_fh, nopen), label)))
    /\ parent_fh' = call'.stack
    /\ nopen' = call'.n
    /\ UNCHANGED <<fs, present, fdfKeys, sparse>>

NextLabel == ReadLabel

SpecLabel == InitLabel /\ [][NextLabel]_vars

IsLabelCall == call # NoCall /\ call.op = "_read_label"

\* _read_label(label) on a store that has not been used
Lookup(F, label) == sile_exit(_read_label(F, sile_enter(<<>>, 0), label))

\* the key of a spelling: lower case, without '_', '-' and '.'
Key(word) == SelectSeq(str_lower(word), LAMBDA c : c \notin {"_", "-", "."})

\* another spelling of the same key
Variant(word) == <<"_">> \o str_lower(word) \o <<"-", ".">>

\* the line with every word of the label's key spelled another way
RespelledLine(line, label) ==
    LET ls == split(line)
    IN  join([i \in 1..Len(ls) |->
                 IF Key(ls[i]) = Key(label) THEN Variant(ls[i]) ELSE ls[i]])

Respelled(F, label) ==
    [f \in DOMAIN F |-> [i \in 1..Len(F[f]) |-> RespelledLine(F[f][i], label)]]

\* the value read from the respelled document: the same lines, respelled
RespelledValue(v, label) ==
    IF v.k = "str" THEN Str(RespelledLine(v.v, label))
    ELSE IF v.k = "blk" THEN Blk([i \in 1..Len(v.v) |-> RespelledLine(v.v[i], label)])
    ELSE v

\* C3: the value _read_label returns for a label is the value it returns for
\* the key of the label (lower case, '_', '-' and '.' removed), and when the
\* words of that key in the document are spelled another way it returns the
\* same entry of the document.
SameEntry(found, label, ret, at) ==
    found.ret = RespelledValue(ret, label) /\ found.at = at

C3_SpellingInvariant ==
    IsLabelCall =>
        /\ call.ret = Lookup(fs, Key(call.label)).ret
        /\ SameEntry(Lookup(Respelled(fs, call.label), call.label),
                     call.label, call.ret, call.at)

\* a value was found for a label whose spelling differs from the document's in
\* case and in '_', '-' and '.'
C3_Witness ==
    /\ IsLabelCall
    /\ call.kind = "scalar"
    /\ call.ret.k = "str"
    /\ call.label # Key(call.label)
    /\ LET word == split(fs[call.at.file][call.at.pos])[1]
       IN  word # call.label /\ word # Key(word)

\* the text of the line at a place of the document
LineAt(F, e) == F[e.file][e.pos]

\* the words of a line, up to a '#'
Words(line) == split(before_hash(line))

KeysOf(ws) == [i \in 1..Len(ws) |-> Key(ws[i])]

\* the words ws with keys ks include a file that exists
IncludesFile(F, ws, ks) ==
    /\ Len(ws) >= 2
    /\ ~In(PIPE, ks)
    /\ ks[1] = INCLUDE
    /\ ws[2] \in DOMAIN F

IsInclude(F, line) ==
    ~starts_with_list(line) /\ IncludesFile(F, Words(line), KeysOf(Words(line)))

\* the lines of file f from line i on, each included file at its directive
RECURSIVE traversal(_, _, _)
traversal(F, f, i) ==
    IF i > Len(F[f]) THEN <<>>
    ELSE <<[file |-> f, pos |-> i]>>
         \o (IF IsInclude(F, F[f][i]) THEN traversal(F, Words(F[f][i])[2], 1) ELSE <<>>)
         \o traversal(F, f, i + 1)

\* the line is an entry for the label: a scalar line, a block opener, a block
\* piped from a file, or a scalar piped from a file that is missing or has an
\* entry for the label
RECURSIVE Defines(_, _, _)
HasEntry(F, t, label) == \E i \in 1..Len(t) : Defines(F, LineAt(F, t[i]), label)

PipedDefines(F, file, label) ==
    file \notin DOMAIN F \/ HasEntry(F, traversal(F, file, 1), label)

PipeDefines(F, ws, ks, idx, label) ==
    \/ ks[1] = BLOCK /\ ks[2] = Key(label)
    \/ /\ In(Key(label), SubSeq(ks, 1, idx - 1))
       /\ Len(ws) > idx
       /\ PipedDefines(F, ws[idx + 1], label)

WordsDefine(F, ws, ks, label) ==
    /\ Len(ws) > 0
    /\ IF In(PIPE, ks) THEN PipeDefines(F, ws, ks, index(ks, PIPE), label)
       ELSE \/ ks[1] = Key(label)
            \/ ks[1] = BLOCK /\ Len(ws) >= 2 /\ ks[2] = Key(label)

Defines(F, line, label) ==
    ~starts_with_list(line) /\ WordsDefine(F, Words(line), KeysOf(Words(line)), label)

\* the places of the traversal of the primary file with an entry for the label
EntriesFor(F, t, label) == {i \in 1..Len(t) : Defines(F, LineAt(F, t[i]), label)}

First(S) == CHOOSE x \in S : \A y \in S : x <= y

\* C4: _read_label(label) returns the value of the first entry for the label
\* in the depth-first traversal of the primary file, the lines of an existing
\* included file taking the place of the directive; it returns None exactly
\* when the traversal has no entry for the label.  (An entry is a line the
\* scan meets; a scalar piped from a file without the label is not an entry.)
C4_FirstEntryWins ==
    IsLabelCall =>
        LET t == traversal(fs, Main, 1)
            hits == EntriesFor(fs, t, call.label)
        IN  IF hits = {} THEN call.ret = None
            ELSE call.ret # None /\ call.at = t[First(hits)]

\* the label was found in an included file after a file included there had
\* ended without it, and the primary file has a later entry for the label
C4_Witness ==
    /\ IsLabelCall
    /\ call.at.file = Inc
    /\ LET t == traversal(fs, Main, 1)
           hits == EntriesFor(fs, t, call.label)
       IN  /\ \E i \in 1..Len(t) : t[i].file = Sub /\ i < First(hits)
           /\ \E j \in hits : t[j].file = Main /\ j > First(hits)

\* C5 (as the claim states it): after _read_label returns or raises, the
\* include stack is empty and every handle the store opened is closed.
C5_HandlesClosed ==
    (IsLabelCall /\ ~Hung) => parent_fh = <<>> /\ nopen = 0

\* a line whose first non-space character is a comment marker
IsComment(line) == strip(line) # <<>> /\ strip(line)[1] \in {"#", "!", ";"}

IsBlank(line) == strip(line) = <<>>

Stripped(lines) == [i \in 1..Len(lines) |-> strip(lines[i])]

\* the document without its comment lines
Uncommented(F) ==
    [f \in DOMAIN F |-> SelectSeq(F[f], LAMBDA l : ~IsComment(l))]

\* C6: the value _read_label returns is the value it returns on the document
\* with every comment line removed (so that adding or removing a comment line
\* changes nothing), and the line of the entry it returns is not a comment line.
C6_CommentsSkipped ==
    IsLabelCall =>
        /\ call.ret = Lookup(Uncommented(fs), call.label).ret
        /\ call.ret # None => ~IsComment(LineAt(fs, call.at))

\* the label was found below a first line that is a comment naming the label
C6_Witness ==
    /\ IsLabelCall
    /\ call.ret # None
    /\ call.at.file = Main
    /\ IsComment(fs[Main][1])
    /\ In(Key(call.label), KeysOf(split(fs[Main][1])))

\* a line that closes a block: not a comment line, its key starts with %endblock
IsCloser(line) == ~IsComment(line) /\ startswith(Key(strip(line)), ENDBLOCK)

Closers(lines, pos) == {j \in (pos + 1)..Len(lines) : IsCloser(lines[j])}

\* the lines between the opener at line pos and the first closer
BodyOf(lines, pos) == SubSeq(lines, pos + 1, First(Closers(lines, pos)) - 1)

IsBlockCall == IsLabelCall /\ call.kind = "block" /\ call.ret.k = "blk"

TrimBlank(lines) ==
    SubSeq(lines,
           First({i \in 1..(Len(lines) + 1) : i > Len(lines) \/ ~IsBlank(lines[i])}),
           Len(lines) - First({n \in 0..Len(lines) :
                                  n = Len(lines) \/ ~IsBlank(lines[Len(lines) - n])}))

FreshLookup(F, file, label) ==
    IF file \notin DOMAIN F THEN Raise("IOError")
    ELSE Lookup([F EXCEPT ![Main] = F[file]], label).ret

IsPipedBlockCall == IsLabelCall /\ call.kind = "pipeblock" /\ call.ret.k = "blk"

\* the words of the line of the entry the call returned
CallWords == Words(LineAt(fs, call.at))

\* C8 (amended): a block piped from a file has as its value the lines of the
\* file named by the fourth word that are neither blank nor comment lines, each
\* stripped of the white space around it, in order; a scalar piped from a file
\* has as its value what a fresh store on the file after '<' returns for the
\* label (the line is an entry only when that is not None).
C8_Piped ==
    /\ IsPipedBlockCall =>
          call.ret.v = Stripped(SelectSeq(fs[CallWords[4]],
                                          LAMBDA l : ~IsBlank(l) /\ ~IsComment(l)))
    /\ (IsLabelCall /\ call.kind = "pipescalar") =>
          /\ call.ret # None
          /\ call.ret = FreshLookup(fs, CallWords[index(KeysOf(CallWords), PIPE) + 1],
                                    call.label)

\* a block was piped from a file with blank and comment lines
C8_Witness ==
    /\ IsPipedBlockCall
    /\ \E i \in 1..Len(fs[CallWords[4]]) : IsBlank(fs[CallWords[4]][i])
    /\ \E i \in 1..Len(fs[CallWords[4]]) : IsComment(fs[CallWords[4]][i])
    /\ Len(call.ret.v) > 0

\* C8 (as the claim states it): a block piped from a file has as its value all
\* the lines of the file, in order.
C8_EntireFile ==
    IsPipedBlockCall => call.ret.v = fs[CallWords[4]]

(***************************************************************************)
(* Type coercion: fdfSileSiesta._type, type and get.                       *)
(***************************************************************************)
Arr == [k |-> "arr"]
IntVal(n) == [k |-> "int", v |-> n]
BoolVal(b) == [k |-> "bool", v |-> b]
\* a float: (-1)^neg * m * 10^e, m without trailing zeros; or inf, -inf, nan
FloatVal(neg, m, e) == [k |-> "float", is |-> "finite", neg |-> neg /\ m # 0, m |-> m, e |-> e]
FloatInf(neg) == [k |-> "float", is |-> "inf", neg |-> neg, m |-> 0, e |-> 0]
FloatNan == [k |-> "float", is |-> "nan", neg |-> FALSE, m |-> 0, e |-> 0]
\* a Python tuple
Pair(a, b) == [k |-> "tuple", v |-> <<a, b>>]

\* _LOGICAL_TRUE, _LOGICAL_FALSE, _LOGICAL
_LOGICAL_TRUE == <<<<".", "t", "r", "u", "e", ".">>, <<"t", "r", "u", "e">>, <<"y", "e", "s">>, <<"y">>, <<"t">>>>
_LOGICAL_FALSE == <<<<".", "f", "a", "l", "s", "e", ".">>, <<"f", "a", "l", "s", "e">>, <<"n", "o">>, <<"n">>, <<"f">>>>
_LOGICAL == _LOGICAL_FALSE \o _LOGICAL_TRUE

Signs == {"+", "-"}

\* a numeric text without its sign
unsigned(s) == IF Len(s) > 0 /\ s[1] \in Signs THEN Tail(s) ELSE s

is_negative(s) == Len(s) > 0 /\ s[1] = "-"

all_digits(s) == Len(s) > 0 /\ \A i \in 1..Len(s) : s[i] \in Digits

DigitSeq == <<"0", "1", "2", "3", "4", "5", "6", "7", "8", "9">>
digit(c) == (CHOOSE i \in 1..10 : DigitSeq[i] = c) - 1

\* the number a sequence of digits writes, n being the number of the digits before
RECURSIVE to_nat(_, _)
to_nat(s, n) == IF s = <<>> THEN n ELSE to_nat(Tail(s), 10 * n + digit(s[1]))

\* the parts of an unsigned decimal text u: digits [. digits] [e [sign] digits],
\* i and j being the places where the digits and the fraction end
decimal_parts(u, i, j) ==
    [int |-> SubSeq(u, 1, i - 1),
     frac |-> IF j > i THEN SubSeq(u, i + 1, j - 1) ELSE <<>>,
     exp |-> IF j > Len(u) THEN <<>> ELSE Drop(u, j),
     bare |-> j > Len(u),
     marked |-> j <= Len(u) /\ u[j] \in {"e", "E"}]

point_end(u, i) ==
    IF i <= Len(u) /\ u[i] = "." THEN Find(u, Digits, FALSE, i + 1) ELSE i

decimal_of(u, i) == decimal_parts(u, i, point_end(u, i))

decimal(u) == decimal_of(u, Find(u, Digits, FALSE, 1))

decimal_ok(d) ==
    /\ Len(d.int) + Len(d.frac) > 0
    /\ d.bare \/ (d.marked /\ all_digits(unsigned(d.exp)))

INF == {<<"i", "n", "f">>, <<"i", "n", "f", "i", "n", "i", "t", "y">>}
NAN == <<"n", "a", "n">>

\* float(s) does not raise
float_ok(s) ==
    \/ str_lower(unsigned(s)) \in INF \cup {NAN}
    \/ decimal_ok(decimal(unsigned(s)))

\* int(s) does not raise
int_ok(s) == all_digits(unsigned(s))

\* int(s)
int_value(s) ==
    IF ~int_ok(s) THEN Raise("ValueError")
    ELSE IntVal(IF is_negative(s) THEN 0 - to_nat(unsigned(s), 0) ELSE to_nat(unsigned(s), 0))

RECURSIVE normal(_, _, _)
normal(neg, m, e) ==
    IF m = 0 THEN FloatVal(FALSE, 0, 0)
    ELSE IF m % 10 = 0 THEN normal(neg, m \div 10, e + 1)
    ELSE FloatVal(neg, m, e)

exponent(x) ==
    IF x = <<>> THEN 0
    ELSE IF is_negative(x) THEN 0 - to_nat(unsigned(x), 0)
    ELSE to_nat(unsigned(x), 0)

decimal_value(neg, d) ==
    normal(neg, to_nat(d.int \o d.frac, 0),
           exponent(d.exp) - Len(d.frac))

\* float(s)
float_value(s) ==
    IF str_lower(unsigned(s)) \in INF THEN FloatInf(is_negative(s))
    ELSE IF str_lower(unsigned(s)) = NAN THEN FloatNan
    ELSE IF decimal_ok(decimal(unsigned(s))) THEN decimal_value(is_negative(s), decimal(unsigned(s)))
    ELSE Raise("ValueError")

\* _type, "if len(values) == 1": fdf = values[0].lower()
type_of_tokenNoLower(tok) ==
    IF In(tok, _LOGICAL) THEN "b"
    ELSE IF float_ok(tok) THEN (IF In(".", tok) THEN "r" ELSE "i")
    ELSE "n"

type_of_lowered(fdf) ==
    IF In(fdf, _LOGICAL) THEN "b"
    ELSE IF float_ok(fdf) THEN (IF In(".", fdf) THEN "r" ELSE "i")
    ELSE "n"

type_of_token(tok) == type_of_lowered(str_lower(tok))

\* _type, from "values = value.split()" on
type_of_values(values) ==
    IF Len(values) = 1 THEN type_of_token(values[1])
    ELSE IF Len(values) = 2 /\ float_ok(values[1]) THEN "p"
    ELSE "n"

\* def _type(cls, value): None, or a string of one letter
_type(value) ==
    IF value = None THEN None
    ELSE IF value.k = "blk" THEN Str(<<"B">>)
    ELSE IF value.k = "arr" THEN Str(<<"a">>)
    ELSE Str(<<type_of_values(split(value.v))>>)

\* sisl.unit.siesta: the units the model knows, by group
UnitGroups ==
    (<<"e", "V">> :> "energy") @@ (<<"R", "y">> :> "energy") @@ (<<"A", "n", "g">> :> "length") @@ (<<"B", "o", "h", "r">> :> "length")

unit_known(u) == u \in DOMAIN UnitGroups

\* unit_group(u)
unit_group(u) == UnitGroups[u]

\* unit_default(group)
unit_default(g) == IF g = "energy" THEN <<"e", "V">> ELSE <<"A", "n", "g">>

\* x * unit_convert(from, to)
converted(x, from, to) ==
    IF from = to THEN x ELSE [k |-> "scaled", x |-> x, from |-> from, to |-> to]

\* type(default)(value) on the text value
cast(default, value) ==
    IF default.k = "int" THEN int_value(value)
    ELSE IF default.k = "float" THEN float_value(value)
    ELSE IF default.k = "bool" THEN BoolVal(Len(value) > 0)
    ELSE Str(value)

get_physicalToDefault(value, unit, with_unit) ==
    IF with_unit THEN Pair(float_value(value[1]), Str(value[2]))
    ELSE IF ~unit_known(value[2]) THEN Raise("ValueError")
    ELSE converted(float_value(value[1]), value[2], unit_default(unit_group(value[2])))

\* get, the branch "elif t == 'p'", value = value.split()
get_physical(value, unit, with_unit) ==
    IF with_unit THEN Pair(float_value(value[1]), Str(value[2]))
    ELSE IF ~unit_known(value[2]) THEN Raise("ValueError")
    ELSE IF unit = None THEN converted(float_value(value[1]), value[2], unit_default(unit_group(value[2])))
    ELSE IF ~unit_known(unit.v) THEN Raise("ValueError")
    ELSE IF unit_group(value[2]) # unit_group(unit.v) THEN Raise("ValueError")
    ELSE converted(float_value(value[1]), value[2], unit.v)

\* get, from "t = self._type(value)" on
get_typed(value, t, unit, default, with_unit) ==
    IF t = Str(<<"r">>) THEN (IF default = None THEN float_value(value.v) ELSE cast(default, value.v))
    ELSE IF t = Str(<<"i">>) THEN (IF default = None THEN int_value(value.v) ELSE cast(default, value.v))
    ELSE IF t = Str(<<"p">>) THEN get_physical(split(value.v), unit, with_unit)
    ELSE IF t = Str(<<"b">>) THEN BoolVal(In(str_lower(value.v), _LOGICAL_TRUE))
    ELSE value

\* get, from "if value is None: return default" on
get_value(value, unit, default, with_unit) ==
    IF value = None THEN default
    ELSE IF IsRaise(value) \/ value = Hang THEN value
    ELSE get_typed(value, _type(value), unit, default, with_unit)

\* the one-word values of the documents of the coercion model
Singles ==
    {<<"7">>, <<"-", "3">>, <<"+", "1", "2">>, <<"0", "0", "7">>, <<"1", ".", "5">>,
     <<".", "5">>, <<"1", ".">>, <<"-", "0", ".", "5", "0">>, <<"1", "e", "5">>, <<"1", "E", "-", "2">>,
     <<"1", ".", "5", "e", "3">>, <<"1", "e">>, <<"e", "5">>, <<".">>, <<"-">>,
     <<"1", ".", "2", ".", "3">>, <<"1", "d", "5">>, <<"i", "n", "f">>, <<"-", "I", "n", "f">>, <<"N", "a", "N">>,
     <<"i", "n", "f", "i", "n", "i", "t", "y">>, <<"t", "r", "u", "e">>, <<"T", "r", "u", "e">>, <<".", "t", "r", "u", "e", ".">>, <<".", "F", "A", "L", "S", "E", ".">>,
     <<"f", "a", "l", "s", "e">>, <<"y", "e", "s">>, <<"N", "O">>, <<"y">>, <<"n">>,
     <<"Y">>, <<"t">>, <<"F">>, <<"y", "e">>, <<"t", "r">>,
     <<"n", "a", "m", "e">>, <<"e", "V">>}

\* the words of the values of more than one word
Multi ==
    {<<"1", ".", "5">>, <<"1", "e", "5">>, <<"7">>, <<"e", "V">>, <<"R", "y">>,
     <<"n", "a", "m", "e">>}

\* the most words in a value
MaxWords == 2

RawValues ==
    {<<w>> : w \in Singles}
        \cup UNION {[1..n -> Multi] : n \in 2..MaxWords}

TheLabel == <<"L", "a", "b", "e", "l">>

\* the primary files: no entry, "Label <value>", a block, a block and an entry
TypedDocs ==
    {<<>>, S_block, S_block_piped, S_comment \o S_scalar}
        \cup {<<TheLabel \o <<" ">> \o join(raw)>> : raw \in RawValues}

InitType ==
    /\ fs \in {(Ext :> ExtLines) @@ (Main :> d) : d \in TypedDocs}
    /\ parent_fh = <<>>
    /\ nopen = 0
    /\ present = {}
    /\ fdfKeys = {}
    /\ sparse = None
    /\ call = NoCall

\* the record of a call of type or get, and the store it leaves
TypeCalled(op, args, found, ret) ==
    [op |-> op, args |-> args, value |-> found.ret, ret |-> ret,
     stack |-> found.st.stack, n |-> found.st.n]

\* store.type(label)
Type ==
    /\ call = NoCall
    /\ \E found \in {Lookup(fs, TheLabel)} :
         call' = TypeCalled("type", <<>>, found,
                            IF IsRaise(found.ret) \/ found.ret = Hang THEN found.ret
                            ELSE _type(found.ret))
    /\ parent_fh' = call'.stack
    /\ nopen' = call'.n
    /\ UNCHANGED <<fs, present, fdfKeys, sparse>>

\* fdfSileSiesta._type(value) on a numeric array
TypeOfArray ==
    /\ call = NoCall
    /\ call' = [op |-> "_type", args |-> <<>>, value |-> Arr, ret |-> _type(Arr),
                stack |-> parent_fh, n |-> nopen]
    /\ UNCHANGED <<fs, parent_fh, nopen, present, fdfKeys, sparse>>

\* the defaults and units get is called with
Defaults == {None, IntVal(5), FloatVal(FALSE, 25, 0 - 1), Str(<<"0">>), BoolVal(FALSE)}
UnitArgs == {None, Str(<<"e", "V">>), Str(<<"A", "n", "g">>)}

\* store.get(label, unit=unit, default=default, with_unit=with_unit)
Get ==
    /\ call = NoCall
    /\ \E default \in Defaults, unit \in UnitArgs, with_unit \in BOOLEAN :
         \E found \in {Lookup(fs, TheLabel)} :
            call' = TypeCalled("get", [default |-> default, unit |-> unit, with_unit |-> with_unit],
                               found, get_value(found.ret, unit, default, with_unit))
    /\ parent_fh' = call'.stack
    /\ nopen' = call'.n
    /\ UNCHANGED <<fs, present, fdfKeys, sparse>>

NextType == Type \/ TypeOfArray \/ Get

SpecType == InitType /\ [][NextType]_vars

IsTypeCall ==
    /\ call # NoCall
    /\ call.op \in {"type", "_type"}
    /\ ~IsRaise(call.value)
    /\ call.value # Hang

\* the literals of a boolean, in lower case
BoolLiterals ==
    {<<".", "t", "r", "u", "e", ".">>, <<"t", "r", "u", "e">>, <<"y", "e", "s">>, <<"y">>, <<"t">>,
     <<".", "f", "a", "l", "s", "e", ".">>, <<"f", "a", "l", "s", "e">>, <<"n", "o">>, <<"n">>, <<"f">>}

\* the kind of a text value by the rules of the code
KindOfWords(ws) ==
    IF Len(ws) = 1
    THEN IF str_lower(ws[1]) \in BoolLiterals THEN "b"
         ELSE IF float_ok(ws[1]) /\ In(".", ws[1]) THEN "r"
         ELSE IF float_ok(ws[1]) THEN "i"
         ELSE "n"
    ELSE IF Len(ws) = 2 /\ float_ok(ws[1]) THEN "p"
    ELSE "n"

KindOf(value, words) ==
    IF value = None THEN None
    ELSE IF value.k = "blk" THEN Str(<<"B">>)
    ELSE IF value.k = "arr" THEN Str(<<"a">>)
    ELSE Str(<<words>>)

\* C9 (amended): the type of a raw value is None for None, 'B' for a list of
\* lines, 'a' for a numeric array; for a text of one word 'b' exactly when the
\* word is, whatever its case, one of .true., true, yes, y, t, .false.,
\* false, no, n, f; otherwise 'r' when float() parses the word and it has a
\* '.', and 'i' when float() parses the word and it has no '.' (1e5, inf and
\* nan are of type 'i'); for a text of two words 'p' when float() parses the
\* first; 'n' for every other text.
C9_Classification ==
    IsTypeCall =>
        call.ret = KindOf(call.value,
                          IF call.value # None /\ call.value.k = "str"
                          THEN KindOfWords(split(call.value.v)) ELSE "")

\* type() has answered 'i' for a word that int() does not parse
C9_Witness ==
    /\ IsTypeCall
    /\ call.op = "type"
    /\ call.ret = Str(<<"i">>)
    /\ ~int_ok(call.value.v)

\* the kind of a text value by the rules of the claim
KindOfWordsAsStated(ws) ==
    IF Len(ws) = 1
    THEN IF str_lower(ws[1]) \in BoolLiterals \ {<<"y">>, <<"n">>} THEN "b"
         ELSE IF float_ok(ws[1]) /\ In(".", ws[1]) THEN "r"
         ELSE IF int_ok(ws[1]) THEN "i"
         ELSE "n"
    ELSE IF Len(ws) = 2 /\ float_ok(ws[1]) THEN "p"
    ELSE "n"

\* C9 (as the claim states it): a word is a Bool exactly when it is one of
\* true, false, yes, no, t, f, .true., .false.; a Real when it parses as a
\* float and has a decimal point; an Integer when it parses as an integer.
C9_AsStated ==
    IsTypeCall =>
        call.ret = KindOf(call.value,
                          IF call.value # None /\ call.value.k = "str"
                          THEN KindOfWordsAsStated(split(call.value.v)) ELSE "")

IsGetCall == call # NoCall /\ call.op = "get"

\* the value get() found is a text of type 'i' or 'r'
IsNumberFound ==
    /\ IsGetCall
    /\ call.value # None
    /\ call.value.k = "str"
    /\ _type(call.value) \in {Str(<<"i">>), Str(<<"r">>)}

\* C10 (as the claim states it): get returns the default when the label is
\* absent; for a value of type Integer or Real it returns an int or a float
\* when no default is given, never raising, and a value of the type of the
\* default when one is given.
C10_GetCoerces ==
    /\ (IsGetCall /\ call.value = None) => call.ret = call.args.default
    /\ (IsNumberFound /\ call.args.default = None) =>
          call.ret.k = (IF _type(call.value) = Str(<<"i">>) THEN "int" ELSE "float")
    /\ (IsNumberFound /\ call.args.default # None) =>
          call.ret.k = call.args.default.k

\* get() found a text of two words, a number and a unit the unit table knows
IsPhysicalFound ==
    /\ IsGetCall
    /\ call.value # None
    /\ call.value.k = "str"
    /\ Len(split(call.value.v)) = 2
    /\ float_ok(split(call.value.v)[1])
    /\ split(call.value.v)[2] \in DOMAIN UnitGroups

\* the number times the factor from one unit to another
Times(x, from, to) == IF from = to THEN x ELSE [k |-> "scaled", x |-> x, from |-> from, to |-> to]

PhysicalResult(number, stored, unit, with_unit) ==
    IF with_unit THEN Pair(number, Str(stored))
    ELSE IF unit = None
    THEN Times(number, stored, IF UnitGroups[stored] = "energy" THEN <<"e", "V">> ELSE <<"A", "n", "g">>)
    ELSE IF UnitGroups[unit.v] # UnitGroups[stored] THEN Raise("ValueError")
    ELSE Times(number, stored, unit.v)

\* C11: get on a value '<number> <unit>' returns (number, unit) when with_unit
\* is set, whatever the unit argument; otherwise it raises when the unit
\* argument is of another group than the stored unit, returns the number times
\* the factor from the stored unit to the unit argument when they are of one
\* group, and the number times the factor to the default unit of the stored
\* unit's group when no unit is given.
C11_Physical ==
    IsPhysicalFound =>
        call.ret = PhysicalResult(float_value(split(call.value.v)[1]), split(call.value.v)[2],
                                  call.args.unit, call.args.with_unit)

\* a value stored in Ry was asked for in eV and came back scaled from Ry to eV
C11_Witness ==
    /\ IsPhysicalFound
    /\ ~call.args.with_unit
    /\ split(call.value.v)[2] = <<"R", "y">>
    /\ call.args.unit = Str(<<"e", "V">>)
    /\ call.ret.k = "scaled"
    /\ call.ret.from = <<"R", "y">> /\ call.ret.to = <<"e", "V">>

\* the files the include directives of the lines name that do not exist
MissingInclude(F, ws) ==
    IF /\ Len(ws) >= 2
       /\ Key(ws[1]) = INCLUDE
       /\ ws[2] \notin DOMAIN F
       /\ ~In(PIPE, KeysOf(ws))
    THEN <<ws[2]>> ELSE <<>>

RECURSIVE MissingIncludes(_, _)
MissingIncludes(F, lines) ==
    IF lines = <<>> THEN <<>>
    ELSE (IF starts_with_list(lines[1]) THEN <<>> ELSE MissingInclude(F, Words(lines[1])))
         \o MissingIncludes(F, Tail(lines))

\* the lines the scan of a call reads: the traversal up to the first entry
ScannedLines(F, t, hits) ==
    [i \in 1..(IF hits = {} THEN Len(t) ELSE First(hits)) |-> LineAt(F, t[i])]

MissingScanned(F, t, hits) == MissingIncludes(F, ScannedLines(F, t, hits))

\* C12: an %include of a file that does not exist gives a warning naming the
\* file and nothing else: _pushfile leaves the stack and the active handle as
\* they are, the scan goes on with the next line, and the first entry for the
\* label after the directive is returned.
C12_MissingIncludeSkipped ==
    IsLabelCall =>
        /\ \E st \in {sile_enter(parent_fh, nopen)} : \E f \in {<<"n", "o", "f", "i", "l", "e">>} :
              /\ _pushfile(fs, st, f).fh = st.fh
              /\ _pushfile(fs, st, f).stack = st.stack
              /\ _pushfile(fs, st, f).n = st.n
        /\ \E t \in {traversal(fs, Main, 1)} :
            \E hits \in {EntriesFor(fs, t, call.label)} :
            \E missing \in {MissingScanned(fs, t, hits)} :
              /\ call.kind \notin {"pipescalar"} => call.warned = missing
              /\ missing # <<>> =>
                    IF hits = {} THEN call.ret = None
                    ELSE call.ret # None /\ call.at = t[First(hits)]

\* a label was found in the primary file below an %include of a missing file
C12_Witness ==
    /\ IsLabelCall
    /\ call.ret # None /\ call.ret.k = "str"
    /\ call.at.file = Main
    /\ call.warned = <<<<"n", "o", "f", "i", "l", "e">>>>
    /\ call.stack = <<>>


(***************************************************************************)
(* set: rewriting the file that holds an entry.                            *)
(***************************************************************************)
\* line.find(key) >= 0
find_in(line, key) ==
    \E i \in 0..(Len(line) - Len(key)) : SubSeq(line, i + 1, i + Len(key)) = key

\* Sile.line_has_key(line, key, case=False)
line_has_key(line, key) == find_in(str_lower(line), str_lower(key))

\* fdfSileSiesta.print(key, value) of a string value
print(key, value) == key \o <<" ">> \o value

\* the line set writes above a kept line; the time it holds is not modelled
OldValue == <<"#", " ", "O", "l", "d", " ", "v", "a", "l", "u", "e", " ", "(", "t", "o", "d", "a", "y", ")">>

\* what set keeps of the line it matched, as the sentence on keep tells it
kept_linesCommented(line, keep) ==
    IF keep THEN <<OldValue \o <<" ">> \o line>> ELSE <<>>

\* what set keeps of the line it matched
kept_lines(line, keep) == IF keep THEN <<OldValue, line>> ELSE <<>>

\* the loop of set over the lines of top_file
RECURSIVE set_lines(_, _, _, _, _)
set_lines(lines, key, value, keep, do_write) ==
    IF lines = <<>> THEN <<>>
    ELSE IF line_has_key(Head(lines), str_lower(key)) /\ do_write
         THEN <<print(key, value)>> \o kept_lines(Head(lines), keep)
                  \o set_lines(Tail(lines), key, value, keep, FALSE)
         ELSE <<Head(lines)>> \o set_lines(Tail(lines), key, value, keep, do_write)

\* top_file of set: the file get was reading when it returned, self.file when
\* get raised
set_top_file(found) ==
    IF IsRaise(get_value(found.ret, None, None, FALSE)) THEN Main ELSE found.st.fh.file

\* the files after set(key, value, keep) wrote top_file
set_files(F, top_file, key, value, keep) ==
    [F EXCEPT ![top_file] = set_lines(F[top_file], key, value, keep, TRUE)]

\* the other files of the directory, for set
IncFirst ==
    <<<<"#", " ", "L", "a", "b", "e", "l", " ", "9">>,
      <<"M", "y", "L", "a", "b", "e", "l", " ", "1">>,
      <<"L", "a", "b", "e", "l", " ", "3">>,
      <<"L", "A", "B", "E", "L", " ", "4">>>>

IncRaises ==
    <<<<"L", "a", "b", "e", "l", " ", "1", "e", "5">>>>

SetWorlds ==
    { (Inc :> IncFirst) @@ (Ext :> ExtLines),
      (Inc :> IncRaises) @@ (Ext :> ExtLines),
      (Inc :> IncOther) @@ (Ext :> ExtLines) }

\* the primary files set is called on
SetDocs ==
    { <<<<"L", "a", "b", "e", "l", " ", "7">>, <<"O", "t", "h", "e", "r", " ", "y">>, <<"l", "a", "b", "e", "l", " ", "8">>>>,
      S_comment \o S_scalar,
      S_include \o S_scalar,
      <<<<"O", "t", "h", "e", "r", " ", "y">>>>,
      S_block,
      S_block_piped \o S_include }

SetKeys ==
    {<<"L", "a", "b", "e", "l">>,
     <<"l", "a", "-", "b", "e", "l">>,
     <<"O", "t", "h", "e", "r">>}

SetValues == {<<"5">>, <<"n", "e", "w">>}

\* the most calls of set on one store
MaxSets == 2

InitSet ==
    /\ fs \in {w @@ (Main :> d) : w \in SetWorlds, d \in SetDocs}
    /\ parent_fh = <<>>
    /\ nopen = 0
    /\ present = {}
    /\ fdfKeys = {}
    /\ sparse = None
    /\ call = NoCall

\* the record of a call of set: its arguments, the files before it and the file
\* it wrote
SetCalled(key, value, keep, found, count) ==
    [op |-> "set", key |-> key, value |-> value, keep |-> keep, before |-> fs,
     file |-> set_top_file(found), stack |-> found.st.stack, n |-> found.st.n,
     count |-> count]

\* store.set(key, value, keep=keep) with a string value
Set ==
    /\ IF call = NoCall THEN TRUE ELSE call.count < MaxSets
    /\ \E key \in SetKeys, value \in SetValues, keep \in BOOLEAN :
         \E found \in {sile_exit(_read_label(fs, sile_enter(parent_fh, nopen), key))} :
            /\ found.ret # Hang
            /\ call' = SetCalled(key, value, keep, found,
                                 IF call = NoCall THEN 1 ELSE call.count + 1)
            /\ fs' = set_files(fs, call'.file, key, value, keep)
    /\ parent_fh' = call'.stack
    /\ nopen' = call'.n
    /\ UNCHANGED <<present, fdfKeys, sparse>>

NextSet == Set

SpecSet == InitSet /\ [][NextSet]_vars


IsSetCall == call # NoCall /\ call.op = "set"

\* what get(key) found in the files as they were before the call
SetFound == Lookup(call.before, call.key)

\* the lines of the file whose text holds the key, whatever the case of the letters
Matching(lines, key) == {i \in 1..Len(lines) : line_has_key(lines[i], key)}

First_of(S) == CHOOSE i \in S : \A j \in S : i <= j

\* a is b with its p-th line replaced by the lines new
Replaced(a, b, p, new) ==
    /\ Len(a) = Len(b) - 1 + Len(new)
    /\ \A i \in 1..(p - 1) : a[i] = b[i]
    /\ \A i \in 1..Len(new) : a[p - 1 + i] = new[i]
    /\ \A i \in (p + 1)..Len(b) : a[i - 1 + Len(new)] = b[i]

GetAfterSet == get_value(Lookup(fs, call.key).ret, None, None, FALSE)

\* C14: after set(key, value) with a string value returns, get(key) on the same
\* file yields that value under the type-coercion rules, whether key was
\* present before the call or absent.
C14_SetThenGet ==
    IsSetCall => GetAfterSet = get_value(Str(call.value), None, None, FALSE)


(***************************************************************************)
(* The cell of the primary file.                                           *)
(***************************************************************************)
\* self.get(label, unit=unit) on the primary file
get(F, label, unit) == get_value(Lookup(F, label).ret, unit, None, FALSE)

\* bool(v) of what get returned
truth(v) ==
    CASE v = None -> FALSE
      [] v.k \in {"blk", "str"} -> Len(v.v) > 0
      [] v.k = "int" -> v.v # 0
      [] v.k = "bool" -> v.v
      [] v.k = "float" -> v.is # "finite" \/ v.m # 0
      [] OTHER -> TRUE

\* a Python list
List(xs) == [k |-> "list", v |-> xs]

\* [float(k) for k in toks[:n]]
floats(toks, n) ==
    LET m == IF Len(toks) < n THEN Len(toks) ELSE n
        xs == [i \in 1..m |-> float_value(toks[i])]
    IN  IF \E i \in 1..m : IsRaise(xs[i]) THEN Raise("ValueError") ELSE List(xs)

\* cell[i, :] = xs: three numbers fill the row, one is broadcast, any other
\* count does not fit
row_assigned(xs) ==
    IF IsRaise(xs) THEN xs
    ELSE IF Len(xs.v) = 3 THEN xs
    ELSE IF Len(xs.v) = 1 THEN List(<<xs.v[1], xs.v[1], xs.v[1]>>)
    ELSE Raise("ValueError")

\* for i in range(3): cell[i, :] = [float(k) for k in lc[i].split()[:3]]
cell_rows(lc) ==
    LET row == [i \in 1..3 |-> IF i > Len(lc.v) THEN Raise("IndexError")
                               ELSE row_assigned(floats(split(lc.v[i]), 3))]
        bad == {i \in 1..3 : IsRaise(row[i])}
    IN  IF lc.k # "blk" THEN Raise("TypeError")
        ELSE IF bad # {} THEN row[CHOOSE i \in bad : \A j \in bad : i <= j]
        ELSE [k |-> "rows", from |-> "LatticeVectors", rows |-> [i \in 1..3 |-> row[i].v]]

\* tmp = [float(k) for k in lc[0].split()[:6]]; cell = SuperCell.tocell(*tmp)
cell_tocell(lc) ==
    IF lc.k # "blk" THEN Raise("TypeError")
    ELSE LET tmp == floats(split(lc.v[1]), 6)
         IN  IF IsRaise(tmp) THEN tmp
             ELSE [k |-> "tocell", from |-> "LatticeParameters", args |-> tmp.v]

\* np.empty([3, 3]): whatever the memory held
Uninitialised == {[k |-> "empty", from |-> "memory", bits |-> b] : b \in {"zeros", "junk"}}

\* the else branch of "if lc:" in _r_supercell_fdf
cell_parameters(lp, empty) ==
    IF IsRaise(lp) THEN lp
    ELSE IF truth(lp) THEN cell_tocell(lp)
    ELSE IF lp = None
    THEN Raise("SileError: Could not find LatticeVectors or LatticeParameters block in file")
    ELSE empty

\* _r_supercell_fdf from "cell = np.empty" to "if lc is None: raise"
cell_filled(F, lv, empty) ==
    IF IsRaise(lv) THEN lv
    ELSE IF truth(lv) THEN cell_rows(lv)
    ELSE cell_parameters(get(F, <<"L", "a", "t", "t", "i", "c", "e", "P", "a", "r", "a", "m", "e", "t", "e", "r", "s">>, None), empty)

\* cell *= s; SuperCell(cell, nsc=nsc)
SuperCell(cell, s, nsc) ==
    IF IsRaise(cell) THEN cell
    ELSE [k |-> "SuperCell", cell |-> cell, s |-> s, nsc |-> nsc]

\* _r_supercell_fdf on the text of the primary file; empty is what np.empty gave
supercell_fdf(F, empty) ==
    LET s == get(F, <<"L", "a", "t", "t", "i", "c", "e", "C", "o", "n", "s", "t", "a", "n", "t">>, Str(<<"A", "n", "g">>))
    IN  IF s = None THEN Raise("SileError: Could not find LatticeConstant in file")
        ELSE IF IsRaise(s) THEN s
        ELSE SuperCell(cell_filled(F, get(F, <<"L", "a", "t", "t", "i", "c", "e", "V", "e", "c", "t", "o", "r", "s">>, None), empty),
                       s, read_supercell_nsc(Order_supercell_nsc).ret)

\* the entries of the primary files of the cell
LatticeConstants ==
    {<<>>,
     <<<<"L", "a", "t", "t", "i", "c", "e", "C", "o", "n", "s", "t", "a", "n", "t", " ", "2", ".", " ", "A", "n", "g">>>>,
     <<<<"L", "a", "t", "t", "i", "c", "e", "C", "o", "n", "s", "t", "a", "n", "t", " ", "1", ".", "5", " ", "B", "o", "h", "r">>>>,
     <<<<"l", "a", "t", "t", "i", "c", "e", "c", "o", "n", "s", "t", "a", "n", "t", " ", "3">>>>}

LatticeVectors ==
    {<<>>,
     <<<<"%", "b", "l", "o", "c", "k", " ", "L", "a", "t", "t", "i", "c", "e", "V", "e", "c", "t", "o", "r", "s">>,
      <<"1", " ", "0", " ", "0">>,
      <<" ", "0", " ", "1", ".", " ", "0">>,
      <<"0", " ", "0", " ", "1", ".", "5", " ", "#", " ", "c">>,
      <<"%", "e", "n", "d", "b", "l", "o", "c", "k", " ", "L", "a", "t", "t", "i", "c", "e", "V", "e", "c", "t", "o", "r", "s">>>>,
     <<<<"%", "b", "l", "o", "c", "k", " ", "L", "a", "t", "t", "i", "c", "e", "V", "e", "c", "t", "o", "r", "s">>,
      <<"%", "e", "n", "d", "b", "l", "o", "c", "k", " ", "L", "a", "t", "t", "i", "c", "e", "V", "e", "c", "t", "o", "r", "s">>>>,
     <<<<"%", "b", "l", "o", "c", "k", " ", "L", "a", "t", "t", "i", "c", "e", "V", "e", "c", "t", "o", "r", "s">>,
      <<"1", " ", "0", " ", "0">>,
      <<"0", " ", "1", " ", "0">>,
      <<"%", "e", "n", "d", "b", "l", "o", "c", "k", " ", "L", "a", "t", "t", "i", "c", "e", "V", "e", "c", "t", "o", "r", "s">>>>,
     <<<<"%", "b", "l", "o", "c", "k", " ", "L", "a", "t", "t", "i", "c", "e", "V", "e", "c", "t", "o", "r", "s">>,
      <<"1", " ", "0", " ", "0">>,
      <<"0", " ", "1">>,
      <<"0", " ", "0", " ", "1">>,
      <<"%", "e", "n", "d", "b", "l", "o", "c", "k", " ", "L", "a", "t", "t", "i", "c", "e", "V", "e", "c", "t", "o", "r", "s">>>>,
     <<<<"%", "b", "l", "o", "c", "k", " ", "L", "a", "t", "t", "i", "c", "e", "V", "e", "c", "t", "o", "r", "s">>,
      <<"1", " ", "0", " ", "0">>,
      <<"0", " ", "1", " ", "0">>,
      <<"0", " ", "0", " ", "a">>,
      <<"%", "e", "n", "d", "b", "l", "o", "c", "k", " ", "L", "a", "t", "t", "i", "c", "e", "V", "e", "c", "t", "o", "r", "s">>>>}

LatticeParameters ==
    {<<>>,
     <<<<"%", "b", "l", "o", "c", "k", " ", "L", "a", "t", "t", "i", "c", "e", "P", "a", "r", "a", "m", "e", "t", "e", "r", "s">>,
      <<"1", ".", " ", "1", ".", " ", "2", " ", "9", "0", ".", " ", "9", "0", ".", " ", "6", "0", ".">>,
      <<"%", "e", "n", "d", "b", "l", "o", "c", "k", " ", "L", "a", "t", "t", "i", "c", "e", "P", "a", "r", "a", "m", "e", "t", "e", "r", "s">>>>,
     <<<<"%", "b", "l", "o", "c", "k", " ", "L", "a", "t", "t", "i", "c", "e", "P", "a", "r", "a", "m", "e", "t", "e", "r", "s">>,
      <<"%", "e", "n", "d", "b", "l", "o", "c", "k", " ", "L", "a", "t", "t", "i", "c", "e", "P", "a", "r", "a", "m", "e", "t", "e", "r", "s">>>>}

CellDocs ==
    {c \o v \o p : c \in LatticeConstants, v \in LatticeVectors, p \in LatticeParameters}

InitCell ==
    /\ fs \in {(Main :> d) : d \in CellDocs}
    /\ parent_fh = <<>>
    /\ nopen = 0
    /\ present \in {{}, {"nc"}}
    /\ fdfKeys = {}
    /\ sparse = None
    /\ call = NoCall

\* store.read_supercell(order=['fdf'])
ReadSupercellFdf ==
    /\ call = NoCall
    /\ \E empty \in Uninitialised :
         call' = [op |-> "read_supercell", order |-> Order_fdf,
                  ret |-> supercell_fdf(fs, empty)]
    /\ UNCHANGED <<fs, parent_fh, nopen, present, fdfKeys, sparse>>

NextCell == ReadSupercellFdf

SpecCell == InitCell /\ [][NextCell]_vars

IsCellCall == call # NoCall /\ call.op = "read_supercell"

\* C15: read_supercell with order ['fdf'] raises a SileError naming the missing
\* entry whenever LatticeConstant is absent or the cell cannot be filled from a
\* LatticeVectors block or a LatticeParameters block; a cell it returns had its
\* matrix populated from one of those two blocks.
C15_CellPopulated ==
    IsCellCall =>
        /\ Lookup(fs, <<"L", "a", "t", "t", "i", "c", "e", "C", "o", "n", "s", "t", "a", "n", "t">>).ret = None
              => call.ret = Raise("SileError: Could not find LatticeConstant in file")
        /\ ~IsRaise(call.ret)
              => call.ret.cell.from \in {"LatticeVectors", "LatticeParameters"}
        /\ (IsRaise(call.ret) /\ Lookup(fs, <<"L", "a", "t", "t", "i", "c", "e", "C", "o", "n", "s", "t", "a", "n", "t">>).ret # None)
              => call.ret = Raise("SileError: Could not find LatticeVectors or LatticeParameters block in file")



(***************************************************************************)
(* The geometry of the primary file.                                       *)
(***************************************************************************)
\* self.get(label, default=default) on the primary file
get_or(F, label, default) == get_value(Lookup(F, label).ret, None, default, FALSE)

One == FloatVal(FALSE, 1, 0)
Bohr2Ang == [k |-> "scaled", x |-> One, from |-> <<"B", "o", "h", "r">>, to |-> <<"A", "n", "g">>]
Unbound == Raise("UnboundLocalError")

\* the scaling of _r_geometry_fdf: s and is_frac by the format lc, lower-cased
scaling(F, lc) ==
    IF find_in(lc, <<"a", "n", "g">>) \/ find_in(lc, <<"n", "o", "t", "s", "c", "a", "l", "e", "d", "c", "a", "r", "t", "e", "s", "i", "a", "n", "a", "n", "g">>)
    THEN [s |-> One, is_frac |-> FALSE]
    ELSE IF find_in(lc, <<"b", "o", "h", "r">>) \/ find_in(lc, <<"n", "o", "t", "s", "c", "a", "l", "e", "d", "c", "a", "r", "t", "e", "s", "i", "a", "n", "b", "o", "h", "r">>)
    THEN [s |-> Bohr2Ang, is_frac |-> FALSE]
    ELSE IF find_in(lc, <<"s", "c", "a", "l", "e", "d", "c", "a", "r", "t", "e", "s", "i", "a", "n">>)
    THEN [s |-> get(F, <<"L", "a", "t", "t", "i", "c", "e", "C", "o", "n", "s", "t", "a", "n", "t">>, Str(<<"A", "n", "g">>)), is_frac |-> FALSE]
    ELSE IF find_in(lc, <<"f", "r", "a", "c", "t", "i", "o", "n", "a", "l">>) \/ find_in(lc, <<"s", "c", "a", "l", "e", "d", "b", "y", "l", "a", "t", "t", "i", "c", "e", "v", "e", "c", "t", "o", "r", "s">>)
    THEN [s |-> One, is_frac |-> TRUE]
    ELSE [s |-> Unbound, is_frac |-> FALSE]

Zeros == <<FloatVal(FALSE, 0, 0), FloatVal(FALSE, 0, 0), FloatVal(FALSE, 0, 0)>>

\* origo of _r_geometry_fdf, as the sentence on the fractional mode tells it
origoSkippedFrac(lor, origin, sc) ==
    IF truth(lor) /\ origin /\ ~sc.is_frac
    THEN [k |-> "origo", v |-> floats(split(lor.v[1]), 3).v, s |-> sc.s]
    ELSE [k |-> "origo", v |-> Zeros, s |-> One]

\* origo of _r_geometry_fdf: zeros, or the first three numbers of the first line
\* of the block times s
origo(lor, origin, sc) ==
    IF truth(lor) /\ origin
    THEN (IF lor.k # "blk" THEN Raise("TypeError")
          ELSE IF IsRaise(sc.s) THEN sc.s
          ELSE IF IsRaise(floats(split(lor.v[1]), 3)) THEN Raise("ValueError")
          ELSE [k |-> "origo", v |-> floats(split(lor.v[1]), 3).v, s |-> sc.s])
    ELSE [k |-> "origo", v |-> Zeros, s |-> One]

\* xyz[ia, :] = [float(k) for k in l[:3]]; species[ia] = int(l[3]) - 1
atom_line(l) ==
    LET xs == row_assigned(floats(l, 3))
    IN  IF IsRaise(xs) THEN xs
        ELSE IF Len(l) < 4 THEN Raise("IndexError")
        ELSE IF IsRaise(int_value(l[4])) THEN Raise("ValueError")
        ELSE [k |-> "atom", xyz |-> xs.v, species |-> int_value(l[4]).v - 1]

\* the loop over the na first lines of the atom block
atom_lines(atms, na) ==
    LET ls == [ia \in 1..na |-> atom_line(split(atms[ia]))]
        bad == {ia \in 1..na : IsRaise(ls[ia])}
    IN  IF bad # {} THEN ls[CHOOSE i \in bad : \A j \in bad : i <= j] ELSE List(ls)

\* xyz = np.dot(xyz, sc.cell) if is_frac; xyz *= s; xyz += origo
positions(ls, sc, cell, og) ==
    [ia \in 1..Len(ls) |->
        [coords |-> ls[ia].xyz, dot |-> IF sc.is_frac THEN cell ELSE None,
         s |-> sc.s, origo |-> og]]

\* _r_geometry_fdf from "na = self.get('NumberOfAtoms', ...)" on
geometry_atoms(atms, na, sc, cell, og) ==
    IF IsRaise(na) THEN na
    ELSE IF na.v > Len(atms)
    THEN Raise("SileError: NumberOfAtoms is larger than the atoms defined in the blocks")
    ELSE IF na.v = Len(atms) /\ na.v = 0
    THEN Raise("SileError: NumberOfAtoms has been determined to be zero, no atoms.")
    ELSE IF na.v < 0 THEN Raise("ValueError")
    ELSE LET ls == atom_lines(atms, na.v)
         IN  IF IsRaise(ls) THEN ls
             ELSE IF IsRaise(sc.s) THEN sc.s
             ELSE [k |-> "Geometry", xyz |-> positions(ls.v, sc, cell, og),
                   species |-> [ia \in 1..Len(ls.v) |-> ls.v[ia].species],
                   atom |-> read_basis(Order_basis).ret, sc |-> cell]

\* _r_geometry_fdf from "lor = self.get('AtomicCoordinatesOrigin')" on
geometry_scaled(F, sc, cell, og) ==
    LET atms == get(F, <<"A", "t", "o", "m", "i", "c", "C", "o", "o", "r", "d", "i", "n", "a", "t", "e", "s", "A", "n", "d", "A", "t", "o", "m", "i", "c", "S", "p", "e", "c", "i", "e", "s">>, None)
    IN  IF IsRaise(og) THEN og
        ELSE IF atms = None
        THEN Raise("SileError: AtomicCoordinatesAndAtomicSpecies block could not be found")
        ELSE IF IsRaise(atms) THEN atms
        ELSE IF atms.k # "blk" THEN Raise("TypeError")
        ELSE geometry_atoms(atms.v,
                            get_or(F, <<"N", "u", "m", "b", "e", "r", "O", "f", "A", "t", "o", "m", "s">>, IntVal(Len(atms.v))),
                            sc, cell, og)

\* _r_geometry_fdf(origin=origin) on the text of the primary file
geometry_fdf(F, empty, origin) ==
    LET cell == supercell_fdf(F, empty)
        lc == get_or(F, <<"A", "t", "o", "m", "i", "c", "C", "o", "o", "r", "d", "i", "n", "a", "t", "e", "s", "F", "o", "r", "m", "a", "t">>, Str(<<"B", "o", "h", "r">>))
    IN  IF IsRaise(cell) THEN cell
        ELSE IF IsRaise(lc) THEN lc
        ELSE IF lc.k # "str" THEN Raise("AttributeError")
        ELSE geometry_scaled(F, scaling(F, str_lower(lc.v)), cell,
                             origo(get(F, <<"A", "t", "o", "m", "i", "c", "C", "o", "o", "r", "d", "i", "n", "a", "t", "e", "s", "O", "r", "i", "g", "i", "n">>, None), origin,
                                   scaling(F, str_lower(lc.v))))

\* the entries of the primary files of the geometry
GeomCells ==
    {<<<<"L", "a", "t", "t", "i", "c", "e", "C", "o", "n", "s", "t", "a", "n", "t", " ", "2", ".", " ", "A", "n", "g">>>> \o <<<<"%", "b", "l", "o", "c", "k", " ", "L", "a", "t", "t", "i", "c", "e", "V", "e", "c", "t", "o", "r", "s">>,
          <<"1", " ", "0", " ", "0">>,
          <<"0", " ", "1", " ", "0">>,
          <<"0", " ", "0", " ", "1", ".", "5">>,
          <<"%", "e", "n", "d", "b", "l", "o", "c", "k", " ", "L", "a", "t", "t", "i", "c", "e", "V", "e", "c", "t", "o", "r", "s">>>>,
     <<<<"L", "a", "t", "t", "i", "c", "e", "C", "o", "n", "s", "t", "a", "n", "t", " ", "1", ".", "5", " ", "B", "o", "h", "r">>>> \o <<<<"%", "b", "l", "o", "c", "k", " ", "L", "a", "t", "t", "i", "c", "e", "P", "a", "r", "a", "m", "e", "t", "e", "r", "s">>,
          <<"1", ".", " ", "1", ".", " ", "2", " ", "9", "0", ".", " ", "9", "0", ".", " ", "6", "0", ".">>,
          <<"%", "e", "n", "d", "b", "l", "o", "c", "k", " ", "L", "a", "t", "t", "i", "c", "e", "P", "a", "r", "a", "m", "e", "t", "e", "r", "s">>>>,
     <<<<"L", "a", "t", "t", "i", "c", "e", "C", "o", "n", "s", "t", "a", "n", "t", " ", "2", ".", " ", "A", "n", "g">>>>}

Formats ==
    {<<>>,
     <<<<"A", "t", "o", "m", "i", "c", "C", "o", "o", "r", "d", "i", "n", "a", "t", "e", "s", "F", "o", "r", "m", "a", "t", " ", "F", "r", "a", "c", "t", "i", "o", "n", "a", "l">>>>,
     <<<<"A", "t", "o", "m", "i", "c", "C", "o", "o", "r", "d", "i", "n", "a", "t", "e", "s", "F", "o", "r", "m", "a", "t", " ", "S", "c", "a", "l", "e", "d", "B", "y", "L", "a", "t", "t", "i", "c", "e", "V", "e", "c", "t", "o", "r", "s">>>>,
     <<<<"A", "t", "o", "m", "i", "c", "C", "o", "o", "r", "d", "i", "n", "a", "t", "e", "s", "F", "o", "r", "m", "a", "t", " ", "A", "n", "g">>>>,
     <<<<"A", "t", "o", "m", "i", "c", "C", "o", "o", "r", "d", "i", "n", "a", "t", "e", "s", "F", "o", "r", "m", "a", "t", " ", "N", "o", "t", "S", "c", "a", "l", "e", "d", "C", "a", "r", "t", "e", "s", "i", "a", "n", "B", "o", "h", "r">>>>,
     <<<<"A", "t", "o", "m", "i", "c", "C", "o", "o", "r", "d", "i", "n", "a", "t", "e", "s", "F", "o", "r", "m", "a", "t", " ", "S", "c", "a", "l", "e", "d", "C", "a", "r", "t", "e", "s", "i", "a", "n">>>>,
     <<<<"A", "t", "o", "m", "i", "c", "C", "o", "o", "r", "d", "i", "n", "a", "t", "e", "s", "F", "o", "r", "m", "a", "t", " ", "F", "r", "a", "c", "t", "i", "o", "n", "a", "l", "_", "A", "n", "g", "l", "e", "s">>>>,
     <<<<"A", "t", "o", "m", "i", "c", "C", "o", "o", "r", "d", "i", "n", "a", "t", "e", "s", "F", "o", "r", "m", "a", "t", " ", "C", "a", "r", "t", "e", "s", "i", "a", "n">>>>}

Origins ==
    {<<>>,
     <<<<"%", "b", "l", "o", "c", "k", " ", "A", "t", "o", "m", "i", "c", "C", "o", "o", "r", "d", "i", "n", "a", "t", "e", "s", "O", "r", "i", "g", "i", "n">>,
      <<"0", ".", "5", " ", "0", " ", "0", ".", "2", "5">>,
      <<"%", "e", "n", "d", "b", "l", "o", "c", "k", " ", "A", "t", "o", "m", "i", "c", "C", "o", "o", "r", "d", "i", "n", "a", "t", "e", "s", "O", "r", "i", "g", "i", "n">>>>,
     <<<<"%", "b", "l", "o", "c", "k", " ", "A", "t", "o", "m", "i", "c", "C", "o", "o", "r", "d", "i", "n", "a", "t", "e", "s", "O", "r", "i", "g", "i", "n">>,
      <<"%", "e", "n", "d", "b", "l", "o", "c", "k", " ", "A", "t", "o", "m", "i", "c", "C", "o", "o", "r", "d", "i", "n", "a", "t", "e", "s", "O", "r", "i", "g", "i", "n">>>>}

AtomBlocks ==
    {<<>>,
     <<<<"%", "b", "l", "o", "c", "k", " ", "A", "t", "o", "m", "i", "c", "C", "o", "o", "r", "d", "i", "n", "a", "t", "e", "s", "A", "n", "d", "A", "t", "o", "m", "i", "c", "S", "p", "e", "c", "i", "e", "s">>,
      <<"0", " ", "0", " ", "0", " ", "1">>,
      <<"0", ".", "5", " ", "0", ".", "5", " ", "0", " ", "2", " ", "#", " ", "C">>,
      <<"%", "e", "n", "d", "b", "l", "o", "c", "k", " ", "A", "t", "o", "m", "i", "c", "C", "o", "o", "r", "d", "i", "n", "a", "t", "e", "s", "A", "n", "d", "A", "t", "o", "m", "i", "c", "S", "p", "e", "c", "i", "e", "s">>>>,
     <<<<"%", "b", "l", "o", "c", "k", " ", "A", "t", "o", "m", "i", "c", "C", "o", "o", "r", "d", "i", "n", "a", "t", "e", "s", "A", "n", "d", "A", "t", "o", "m", "i", "c", "S", "p", "e", "c", "i", "e", "s">>,
      <<"0", " ", "0", ".", "5", " ", "0">>,
      <<"%", "e", "n", "d", "b", "l", "o", "c", "k", " ", "A", "t", "o", "m", "i", "c", "C", "o", "o", "r", "d", "i", "n", "a", "t", "e", "s", "A", "n", "d", "A", "t", "o", "m", "i", "c", "S", "p", "e", "c", "i", "e", "s">>>>}

NumbersOfAtoms ==
    {<<>>, <<<<"N", "u", "m", "b", "e", "r", "O", "f", "A", "t", "o", "m", "s", " ", "1">>>>, <<<<"N", "u", "m", "b", "e", "r", "O", "f", "A", "t", "o", "m", "s", " ", "3">>>>}

GeomDocs ==
    {c \o f \o o \o a \o n :
        c \in GeomCells, f \in Formats, o \in Origins, a \in AtomBlocks, n \in NumbersOfAtoms}

InitGeom ==
    /\ fs \in {(Main :> d) : d \in GeomDocs}
    /\ parent_fh = <<>>
    /\ nopen = 0
    /\ present = {}
    /\ fdfKeys = {}
    /\ sparse = None
    /\ call = NoCall

\* store.read_geometry(order=['fdf'], origin=origin)
ReadGeometryFdf ==
    /\ call = NoCall
    /\ \E empty \in Uninitialised, origin \in BOOLEAN :
         call' = [op |-> "read_geometry", order |-> Order_fdf, origin |-> origin,
                  ret |-> geometry_fdf(fs, empty, origin)]
    /\ UNCHANGED <<fs, parent_fh, nopen, present, fdfKeys, sparse>>

NextGeom == ReadGeometryFdf

SpecGeom == InitGeom /\ [][NextGeom]_vars


IsGeomCall == call # NoCall /\ call.op = "read_geometry"

Returned == IsGeomCall /\ call.ret.k = "Geometry"

\* the value of AtomicCoordinatesFormat in the primary file, in lower case
FormatOf(F) ==
    LET v == Lookup(F, <<"A", "t", "o", "m", "i", "c", "C", "o", "o", "r", "d", "i", "n", "a", "t", "e", "s", "F", "o", "r", "m", "a", "t">>).ret
    IN  IF v = None THEN <<"b", "o", "h", "r">> ELSE str_lower(v.v)

\* the format names the fractional mode
NamesFractional(lc) ==
    find_in(lc, <<"f", "r", "a", "c", "t", "i", "o", "n", "a", "l">>) \/ find_in(lc, <<"s", "c", "a", "l", "e", "d", "b", "y", "l", "a", "t", "t", "i", "c", "e", "v", "e", "c", "t", "o", "r", "s">>)

\* the format names one of the modes that are looked for first
NamesCartesian(lc) ==
    \/ find_in(lc, <<"a", "n", "g">>)
    \/ find_in(lc, <<"b", "o", "h", "r">>)
    \/ find_in(lc, <<"s", "c", "a", "l", "e", "d", "c", "a", "r", "t", "e", "s", "i", "a", "n">>)

\* the numbers of the first three words of a line
Numbers(line) == [i \in 1..3 |-> float_value(split(line)[i])]

OriginBlock == Lookup(fs, <<"A", "t", "o", "m", "i", "c", "C", "o", "o", "r", "d", "i", "n", "a", "t", "e", "s", "O", "r", "i", "g", "i", "n">>).ret

AtomsBlock == Lookup(fs, <<"A", "t", "o", "m", "i", "c", "C", "o", "o", "r", "d", "i", "n", "a", "t", "e", "s", "A", "n", "d", "A", "t", "o", "m", "i", "c", "S", "p", "e", "c", "i", "e", "s">>).ret

\* C16 (amended): when AtomicCoordinatesFormat contains 'fractional' or
\* 'scaledbylatticevectors' and none of 'ang', 'bohr', 'scaledcartesian', every
\* atom position returned by reading the geometry from the primary file is the
\* fractional coordinates of its line multiplied by the cell matrix, with the
\* scalar factor 1, plus the origin shift: the first three numbers of the first
\* line of the AtomicCoordinatesOrigin block, not multiplied by the cell, when
\* that block is present and not empty and origin is not disabled; zero otherwise.
C16_Fractional ==
    (Returned /\ NamesFractional(FormatOf(fs)) /\ ~NamesCartesian(FormatOf(fs))) =>
        \A ia \in 1..Len(call.ret.xyz) :
            /\ call.ret.xyz[ia].coords = Numbers(AtomsBlock.v[ia])
            /\ call.ret.xyz[ia].dot = call.ret.sc
            /\ call.ret.xyz[ia].s = One
            /\ call.ret.xyz[ia].origo =
                  IF OriginBlock # None /\ OriginBlock.v # <<>> /\ call.origin
                  THEN [k |-> "origo", v |-> Numbers(OriginBlock.v[1]), s |-> One]
                  ELSE [k |-> "origo", v |-> Zeros, s |-> One]

\* a geometry read in fractional mode from a file with an origin block
C16_Witness ==
    /\ Returned
    /\ NamesFractional(FormatOf(fs))
    /\ ~NamesCartesian(FormatOf(fs))
    /\ call.origin
    /\ Len(call.ret.xyz) = 2
    /\ call.ret.xyz[2].origo.v # Zeros
    /\ call.ret.xyz[2].dot.k = "SuperCell"

\* C16 (as stated): when AtomicCoordinatesFormat matches 'fractional' or
\* 'scaledbylatticevectors', every atom position returned is the fractional
\* coordinates multiplied by the cell matrix, with no scalar factor and no
\* origin shift, whether or not an AtomicCoordinatesOrigin block is present.
C16_AsStated ==
    (Returned /\ NamesFractional(FormatOf(fs))) =>
        \A ia \in 1..Len(call.ret.xyz) :
            /\ call.ret.xyz[ia].coords = Numbers(AtomsBlock.v[ia])
            /\ call.ret.xyz[ia].dot = call.ret.sc
            /\ call.ret.xyz[ia].s = One
            /\ call.ret.xyz[ia].origo = [k |-> "origo", v |-> Zeros, s |-> One]


(***************************************************************************)
(* read_hessian with a supercell.                                          *)
(***************************************************************************)
\* the most repetitions of the cell along one axis
MaxTile == 2

\* the most displaced atoms
MaxAtoms == 2

\* _a.arangei(first - 1, last)
arangei(a, b) == [i \in 1..(IF b > a THEN b - a ELSE 0) |-> a + i - 1]

\* np.any(np.diff(fc_atoms) != 1)
not_consecutive(fc_atoms) ==
    \E i \in 1..(Len(fc_atoms) - 1) : fc_atoms[i + 1] - fc_atoms[i] # 1

\* list(itertools.product([0, 1, 2], [0, 1, 2]))
product_xyz == [k \in 1..9 |-> <<(k - 1) \div 3, (k - 1) % 3>>]

\* H[ia*3+i, ja*3+j] = (FC[ia, i, fja, j] + FC[ja, j, fia, i]) / (4 * m[fia] * m[fja]) ** 0.5
hessian_element(fc_atoms, ia, ja, ij) ==
    [row |-> ia * 3 + ij[1], col |-> ja * 3 + ij[2],
     sum |-> << <<ia, ij[1], fc_atoms[ja + 1], ij[2]>>, <<ja, ij[2], fc_atoms[ia + 1], ij[1]>> >>,
     m |-> <<fc_atoms[ia + 1], fc_atoms[ja + 1]>>]

\* "for ia, fia in enumerate(fc_atoms): for ja, fja in enumerate(fc_atoms): for
\* i, j in xyz_xyz" from the pair numbered p on: the elements assigned.  xyz_xyz
\* is what the iterator made before the loops has left to give; a for loop over
\* it takes all of it.
RECURSIVE hessian_elements(_, _, _)
hessian_elements(fc_atoms, p, xyz_xyz) ==
    IF p >= Len(fc_atoms) * Len(fc_atoms) THEN {}
    ELSE {hessian_element(fc_atoms, p \div Len(fc_atoms), p % Len(fc_atoms), xyz_xyz[k]) :
             k \in 1..Len(xyz_xyz)}
         \cup hessian_elements(fc_atoms, p + 1, <<>>)

\* the elements of the Hessian that _r_hessian_fc returns
hessian_of(ret, fc_atoms) ==
    IF ret = Val("hessian", "FC") THEN hessian_elements(fc_atoms, 0, product_xyz) ELSE {}

\* the end of _r_hessian_fc, were the tiled Hessian returned
hessian_populatedTiled(supercell, fc_atoms, tiled) ==
    IF \A i \in 1..3 : supercell[i] = 1 THEN Val("hessian", "FC")
    ELSE IF not_consecutive(fc_atoms)
    THEN Raise("SislError: read_hessian requires the FC atoms to be consecutive!")
    ELSE IF ~tiled
    THEN Raise("SislError: read_hessian could not figure out the tiling method for the supercell")
    ELSE Val("hessian", "FC")

\* _r_hessian_fc from "supercell = _a.arrayi(...)" on; tiled is the outcome of
\* np.allclose(geom_tile.xyz, geom.xyz, rtol=0, atol=0.01)
hessian_populated(supercell, fc_atoms, tiled) ==
    IF \A i \in 1..3 : supercell[i] = 1 THEN Val("hessian", "FC")
    ELSE IF not_consecutive(fc_atoms)
    THEN Raise("SislError: read_hessian requires the FC atoms to be consecutive!")
    ELSE IF ~tiled
    THEN Raise("SislError: read_hessian could not figure out the tiling method for the supercell")
    ELSE Raise("NotImplementedError: read_hessian currently does not support super-cell Hessians")

\* _r_hessian_fc(supercell=supercell), built being what it gives up to the
\* geometry
hessian_fc(built, supercell, fc_atoms, tiled) ==
    IF built.ret = None \/ IsRaise(built.ret) THEN built
    ELSE Out(hessian_populated(supercell, fc_atoms, tiled), built.log)

\* read_hessian(supercell=supercell): the loop over the default order
read_hessian_supercell(supercell, fc_atoms, tiled) ==
    FirstOfStep("FC", hessian_fc(_r_hessian_fc, supercell, fc_atoms, tiled),
                [ret |-> None, consulted |-> <<>>, log |-> <<>>])

InitHessian ==
    /\ present \in SUBSET {"FC", "XV", "nc"}
    /\ fdfKeys \in FdfDocs
    /\ sparse = None
    /\ fs = <<>>
    /\ parent_fh = <<>>
    /\ nopen = 0
    /\ call = NoCall

\* store.read_hessian(supercell=supercell), MD.FCFirst = first and MD.FCLast =
\* last in the primary file
ReadHessian ==
    /\ call = NoCall
    /\ \E supercell \in [1..3 -> 1..MaxTile], tiled \in BOOLEAN :
       \E first \in 1..MaxAtoms, last \in 1..MaxAtoms :
         /\ first <= last
         /\ call' = [op |-> "read_hessian", supercell |-> supercell, tiled |-> tiled,
                     fc_atoms |-> arangei(first - 1, last),
                     built |-> _r_hessian_fc.ret,
                     H |-> hessian_of(read_hessian_supercell(supercell, arangei(first - 1, last),
                                                             tiled).ret,
                                      arangei(first - 1, last)),
                     ret |-> read_hessian_supercell(supercell, arangei(first - 1, last),
                                                    tiled).ret]
    /\ UNCHANGED <<fs, parent_fh, nopen, present, fdfKeys, sparse>>

NextHessian == ReadHessian

SpecHessian == InitHessian /\ [][NextHessian]_vars

IsHessianCall == call # NoCall /\ call.op = "read_hessian"

\* C17: every read_hessian with a supercell other than (1, 1, 1) for which the
\* .FC file exists ends by raising an error and returns no Hessian; when the
\* run reaches the tiling with consecutive displaced atoms and the tiling check
\* passes, the error is 'does not support super-cell Hessians'.
C17_SupercellFailsClosed ==
    (IsHessianCall /\ call.supercell # <<1, 1, 1>> /\ "FC" \in present) =>
        /\ IsRaise(call.ret)
        /\ (call.built # None /\ ~IsRaise(call.built) /\ call.tiled
                /\ \A i \in 1..(Len(call.fc_atoms) - 1) :
                      call.fc_atoms[i + 1] = call.fc_atoms[i] + 1)
              => call.ret = Raise("NotImplementedError: read_hessian currently does not support super-cell Hessians")

\* a call with a supercell that passed the tiling check and raised there
C17_Witness ==
    /\ IsHessianCall
    /\ call.supercell = <<2, 1, 2>>
    /\ "FC" \in present
    /\ call.tiled
    /\ Len(call.fc_atoms) = 2
    /\ call.built = Val("hessian", "FC")
    /\ call.ret = Raise("NotImplementedError: read_hessian currently does not support super-cell Hessians")


(***************************************************************************)
(* Reconciliation of a sparse quantity with the geometry of the run.       *)
(***************************************************************************)
\* the most atoms of a geometry
MaxNa == 2

\* Atom(Z, orbital, tag=tag), no orbitals in orbital
Atom(Z, no, tag) == [Z |-> Z, no |-> no, tag |-> tag]

\* the atoms of the geometries
AtomKinds == {Atom(1, 1, "H"), Atom(6, 4, "C"), Atom(6, 2, "C_sz"), Atom(8, 4, "O")}

\* the geometries: their atoms in order
Geometries == UNION {[1..n -> AtomKinds] : n \in 1..MaxNa}

\* geom.na
na_of(geom) == Len(geom)

\* geom.no: the orbitals of all atoms
RECURSIVE no_of(_)
no_of(geom) == IF geom = <<>> THEN 0 ELSE geom[1].no + no_of(Tail(geom))

\* geom.atom.iter(True): each atom of the geometry's species with the indices of
\* the atoms that are of it, by first occurrence
species_from(geom, i) ==
    {j \in i..Len(geom) : geom[j] = geom[i]}

iter_species(geom) ==
    LET firsts == {i \in 1..Len(geom) : \A j \in 1..(i - 1) : geom[j] # geom[i]}
    IN  [i \in firsts |-> species_from(geom, i)]

\* spgeom.geom.atom.replace(idx, a): the atoms at idx become a
replace_atoms(geom, idx, a) ==
    IF \E i \in idx : i > Len(geom) THEN Raise("IndexError")
    ELSE [k |-> "atoms", v |-> [i \in 1..Len(geom) |-> IF i \in idx THEN a ELSE geom[i]]]

\* one turn of the loop of _SpGeom_replace_geom: the species of geom that
\* starts at first
replace_species(sp_geom, geom, first) ==
    IF first > Len(sp_geom) THEN Raise("IndexError")
    ELSE replace_atoms(sp_geom, iter_species(geom)[first],
                       IF sp_geom[first].no # geom[first].no
                       THEN Atom(geom[first].Z, sp_geom[first].no, geom[first].tag)
                       ELSE geom[first])

\* the loop of _SpGeom_replace_geom over the species of geom not yet done
RECURSIVE replace_loop(_, _, _)
replace_loop(sp_geom, geom, todo) ==
    IF todo = {} THEN [geom |-> sp_geom, raised |-> None]
    ELSE LET first == CHOOSE i \in todo : \A j \in todo : i <= j
             turn == replace_species(sp_geom, geom, first)
         IN  IF IsRaise(turn) THEN [geom |-> sp_geom, raised |-> turn]
             ELSE replace_loop(turn.v, geom, todo \ {first})

\* what _SpGeom_replace_geom gives: the geometry attached after it, what it
\* returns or raises, and whether it warned
Replaced_geom(geom, ret, warned) == [geom |-> geom, ret |-> ret, warned |-> warned]

\* _SpGeom_replace_geom, were the first branch to go on to the loop
_SpGeom_replace_geomPerAtom(sp_geom, geom) ==
    LET done == replace_loop(sp_geom, geom, DOMAIN iter_species(geom))
    IN  Replaced_geom(done.geom,
                      IF done.raised # None THEN done.raised
                      ELSE BoolVal(no_of(sp_geom) = no_of(geom)),
                      na_of(sp_geom) # na_of(geom))

\* fdfSileSiesta._SpGeom_replace_geom(spgeom, geom), sp_geom the geometry
\* attached to spgeom
_SpGeom_replace_geom(sp_geom, geom) ==
    IF na_of(sp_geom) # na_of(geom) /\ no_of(sp_geom) = no_of(geom)
    THEN Replaced_geom(geom, BoolVal(TRUE), FALSE)
    ELSE LET done == replace_loop(sp_geom, geom, DOMAIN iter_species(geom))
         IN  Replaced_geom(done.geom,
                           IF done.raised # None THEN done.raised
                           ELSE BoolVal(no_of(sp_geom) = no_of(geom)),
                           na_of(sp_geom) # na_of(geom))

\* the readers that reconcile what they read: whether they look at what
\* _SpGeom_replace_geom returned
Reconcilers ==
    [_r_hamiltonian_tshs |-> FALSE, _r_hamiltonian_hsx |-> TRUE,
     _r_density_matrix_tsde |-> TRUE, _r_density_matrix_dm |-> TRUE,
     _r_energy_density_matrix_tsde |-> TRUE]

\* a reader from "self._SpGeom_replace_geom(H, self.read_geometry(True))" on:
\* done is what the reconciliation gave, checks whether the reader looks at it
reconciledRaises(done, checks) ==
    [geom |-> done.geom,
     ret |-> IF IsRaise(done.ret) THEN done.ret
             ELSE IF ~done.ret.v THEN Raise("SileError")
             ELSE Val("matrix", "file"),
     warned |-> done.warned, warned_reader |-> FALSE]

reconciled(done, checks) ==
    [geom |-> done.geom,
     ret |-> IF IsRaise(done.ret) THEN done.ret ELSE Val("matrix", "file"),
     warned |-> done.warned,
     warned_reader |-> ~IsRaise(done.ret) /\ checks /\ ~done.ret.v]

InitReplace ==
    /\ fs = <<>>
    /\ parent_fh = <<>>
    /\ nopen = 0
    /\ present = {}
    /\ fdfKeys = {}
    /\ sparse = None
    /\ call = NoCall

\* fdfSileSiesta._SpGeom_replace_geom(spgeom, geom)
ReplaceGeom ==
    /\ call = NoCall
    /\ \E sp_geom \in Geometries, geom \in Geometries :
         /\ call' = [op |-> "_SpGeom_replace_geom", before |-> sp_geom, geom |-> geom,
                     ret |-> _SpGeom_replace_geom(sp_geom, geom).ret,
                     warned |-> _SpGeom_replace_geom(sp_geom, geom).warned]
         /\ sparse' = [k |-> "sparse", geom |-> _SpGeom_replace_geom(sp_geom, geom).geom]
    /\ UNCHANGED <<fs, parent_fh, nopen, present, fdfKeys>>

\* one of the readers of Reconcilers, on a matrix file that exists and holds a
\* quantity with the geometry sp_geom, read_geometry(True) giving geom
ReadReconciled ==
    /\ call = NoCall
    /\ \E reader \in DOMAIN Reconcilers, sp_geom \in Geometries, geom \in Geometries :
         \E done \in {reconciled(_SpGeom_replace_geom(sp_geom, geom), Reconcilers[reader])} :
            /\ call' = [op |-> reader, before |-> sp_geom, geom |-> geom, ret |-> done.ret,
                        warned |-> done.warned, warned_reader |-> done.warned_reader]
            /\ sparse' = [k |-> "sparse", geom |-> done.geom]
    /\ UNCHANGED <<fs, parent_fh, nopen, present, fdfKeys>>

NextReplace == ReplaceGeom \/ ReadReconciled

SpecReplace == InitReplace /\ [][NextReplace]_vars


IsReplaceCall == call # NoCall /\ call.op = "_SpGeom_replace_geom"

IsReaderCall == call # NoCall /\ call.op \in DOMAIN Reconcilers

\* the atom counts of the two geometries of the call differ
AtomsDiffer == Len(call.before) # Len(call.geom)

\* the orbital counts of the two geometries of the call differ
OrbitalsDiffer == no_of(call.before) # no_of(call.geom)

\* C18: _SpGeom_replace_geom with differing atom counts and equal total orbital
\* counts attaches the incoming geometry as it is to the sparse quantity and
\* returns true, without replacing atom by atom.
C18_WholesaleReplace ==
    (IsReplaceCall /\ AtomsDiffer /\ ~OrbitalsDiffer) =>
        /\ sparse.geom = call.geom
        /\ call.ret = BoolVal(TRUE)
        /\ ~call.warned

\* two atoms of two orbitals each take the place of one atom of four
C18_Witness ==
    /\ IsReplaceCall
    /\ call.before = <<Atom(6, 4, "C")>>
    /\ call.geom = <<Atom(6, 2, "C_sz"), Atom(6, 2, "C_sz")>>
    /\ sparse.geom = call.geom
    /\ call.ret = BoolVal(TRUE)

\* C19: _SpGeom_replace_geom with differing atom counts and differing total
\* orbital counts leaves the attached geometry unchanged, warns, raises no
\* exception and returns false.
C19_MismatchUntouched ==
    (IsReplaceCall /\ AtomsDiffer /\ OrbitalsDiffer) =>
        /\ sparse.geom = call.before
        /\ call.warned
        /\ call.ret = BoolVal(FALSE)

C21_SlotAlignment ==
    (IsReplaceCall /\ ~AtomsDiffer) =>
        /\ ~IsRaise(call.ret)
        /\ Len(sparse.geom) = Len(call.before)
        /\ \A i \in 1..Len(call.before) :
              /\ sparse.geom[i].Z = call.geom[i].Z
              /\ sparse.geom[i].tag = call.geom[i].tag
              /\ sparse.geom[i].no = call.before[i].no
        /\ no_of(sparse.geom) = no_of(call.before)
        /\ call.ret = BoolVal(~OrbitalsDiffer)


(***************************************************************************)
(* read_grid by name.  A grid name is a string of characters; the files    *)
(* that hold grids are named by the quantity they hold.                    *)
(***************************************************************************)
\* the dictionary of _r_grid_nc: {...}.get(key)
grid_names_nc(key) ==
    CASE key = <<"r", "h", "o">> -> Str("Rho")
      [] key = <<"r", "h", "o", "i", "n", "i", "t">> -> Str("RhoInit")
      [] key = <<"v", "n", "a">> -> Str("Vna")
      [] key = <<"c", "h", "l", "o", "c", "a", "l">> -> Str("Chlocal")
      [] key = <<"r", "h", "o", "t", "o", "t">> -> Str("RhoTot")
      [] key = <<"t", "o", "t", "a", "l", "c", "h", "a", "r", "g", "e">> -> Str("RhoTot")
      [] key = <<"d", "e", "l", "t", "a", "r", "h", "o">> -> Str("RhoDelta")
      [] key = <<"r", "h", "o", "d", "e", "l", "t", "a">> -> Str("RhoDelta")
      [] key = <<"e", "l", "e", "c", "t", "r", "o", "s", "t", "a", "t", "i", "c", "p", "o", "t", "e", "n", "t", "i", "a", "l">> -> Str("Vh")
      [] key = <<"v", "h">> -> Str("Vh")
      [] key = <<"r", "h", "o", "x", "c">> -> Str("RhoXC")
      [] key = <<"t", "o", "t", "a", "l", "p", "o", "t", "e", "n", "t", "i", "a", "l">> -> Str("Vt")
      [] key = <<"v", "t">> -> Str("Vt")
      [] key = <<"b", "a", "d", "e", "r", "r", "h", "o">> -> Str("RhoBader")
      [] key = <<"r", "h", "o", "b", "a", "d", "e", "r">> -> Str("RhoBader")
      [] OTHER -> None

\* the dictionary of _r_grid_grid_nc: {...}.get(key)
grid_names_grid_nc(key) ==
    CASE key = <<"r", "h", "o">> -> Str("Rho")
      [] key = <<"r", "h", "o", "i", "n", "i", "t">> -> Str("RhoInit")
      [] key = <<"v", "n", "a">> -> Str("Vna")
      [] key = <<"c", "h", "l", "o", "c", "a", "l">> -> Str("Chlocal")
      [] key = <<"r", "h", "o", "t", "o", "t">> -> Str("TotalCharge")
      [] key = <<"t", "o", "t", "a", "l", "c", "h", "a", "r", "g", "e">> -> Str("TotalCharge")
      [] key = <<"d", "e", "l", "t", "a", "r", "h", "o">> -> Str("DeltaRho")
      [] key = <<"r", "h", "o", "d", "e", "l", "t", "a">> -> Str("DeltaRho")
      [] key = <<"e", "l", "e", "c", "t", "r", "o", "s", "t", "a", "t", "i", "c", "p", "o", "t", "e", "n", "t", "i", "a", "l">> -> Str("ElectrostaticPotential")
      [] key = <<"v", "h">> -> Str("ElectrostaticPotential")
      [] key = <<"r", "h", "o", "x", "c">> -> Str("RhoXC")
      [] key = <<"t", "o", "t", "a", "l", "p", "o", "t", "e", "n", "t", "i", "a", "l">> -> Str("TotalPotential")
      [] key = <<"v", "t">> -> Str("TotalPotential")
      [] key = <<"b", "a", "d", "e", "r", "r", "h", "o">> -> Str("BaderCharge")
      [] key = <<"r", "h", "o", "b", "a", "d", "e", "r">> -> Str("BaderCharge")
      [] OTHER -> None

\* name + '.grid.nc'; None + '.grid.nc' raises TypeError
grid_nc_file(name) ==
    IF name = None THEN Raise("TypeError")
    ELSE IF name.v = "BaderCharge" THEN Str("BaderCharge.grid.nc")
    ELSE IF name.v = "Chlocal" THEN Str("Chlocal.grid.nc")
    ELSE IF name.v = "DeltaRho" THEN Str("DeltaRho.grid.nc")
    ELSE IF name.v = "ElectrostaticPotential" THEN Str("ElectrostaticPotential.grid.nc")
    ELSE IF name.v = "Rho" THEN Str("Rho.grid.nc")
    ELSE IF name.v = "RhoInit" THEN Str("RhoInit.grid.nc")
    ELSE IF name.v = "RhoXC" THEN Str("RhoXC.grid.nc")
    ELSE IF name.v = "TotalCharge" THEN Str("TotalCharge.grid.nc")
    ELSE IF name.v = "TotalPotential" THEN Str("TotalPotential.grid.nc")
    ELSE IF name.v = "Vna" THEN Str("Vna.grid.nc")
    ELSE Raise("TypeError")

\* _r_grid_nc(name): the named variable of the <SystemLabel>.nc file
_r_grid_nc_named(name) ==
    IF isfile("nc")
    THEN Out([k |-> "grid", name |-> grid_names_nc(str_lower(name)), src |-> "nc"],
             <<"nc">>)
    ELSE Out(None, <<>>)

\* _r_grid_grid_nc(name), as written: the grid of <Name>.grid.nc is read and
\* given its geometry, and the method then returns None
_r_grid_grid_nc_named(name) ==
    LET f == grid_nc_file(grid_names_grid_nc(str_lower(name)))
    IN  IF IsRaise(f) THEN Out(f, <<>>)
        ELSE IF isfile(f.v)
        THEN AfterGeometry(None, <<f.v>>, read_geometry(Order_output))
        ELSE Out(None, <<>>)

\* str.lower() of a source identifier passed in order
lower_source(f) == IF f \in {"nc", "grid.nc", "grid_nc"} THEN f ELSE lower(f)

\* getattr(self, '_r_grid_{}'.format(f.lower()))(name)
_r_grid_named(f, name) ==
    CASE lower_source(f) = "nc" -> _r_grid_nc_named(name)
      [] lower_source(f) = "grid_nc" -> _r_grid_grid_nc_named(name)
      [] OTHER -> AttributeError

\* for f in order: v = ...; if v is not None: return v; return None
RECURSIVE read_grid_from(_, _, _)
read_grid_from(name, order, i) ==
    IF i > Len(order) THEN [ret |-> None, consulted |-> <<>>, log |-> <<>>]
    ELSE LET r == _r_grid_named(order[i], name)
         IN  IF IsRaise(r.ret) \/ r.ret # None
             THEN [ret |-> r.ret, consulted |-> <<order[i]>>, log |-> r.log]
             ELSE FirstOfStep(order[i], r, read_grid_from(name, order, i + 1))

read_grid_named(name, order) == read_grid_from(name, order, 1)

\* the names callers pass, in several spellings, and one name of no grid
GridCallNames ==
    { <<"v", "h">>, <<"V", "H">>, <<"V", "h">>,
      <<"R", "h", "o">>, <<"T", "o", "t", "a", "l", "P", "o", "t", "e", "n", "t", "i", "a", "l">>, <<"v", "t">>,
      <<"R", "h", "o", "T", "o", "t">>, <<"n", "o", "g", "r", "i", "d">> }

\* the orders callers pass; the documented default is Order_grid
GridOrders == {Order_grid, <<"grid.nc">>, <<"grid_nc">>, <<"nc">>, <<"grid_nc", "nc">>}

\* the files that may lie next to the primary file
GridFiles == {"nc", "XV", "ElectrostaticPotential.grid.nc", "Vh.grid.nc",
              "Rho.grid.nc", "TotalPotential.grid.nc"}

InitGrid ==
    /\ present \in SUBSET GridFiles
    /\ fdfKeys \in FdfDocs
    /\ sparse = None
    /\ fs = <<>>
    /\ parent_fh = <<>>
    /\ nopen = 0
    /\ call = NoCall

\* read_grid(name, order=order)
ReadGrid ==
    /\ call = NoCall
    /\ \E name \in GridCallNames : \E order \in GridOrders :
          \E r \in {read_grid_named(name, order)} :
             call' = [op |-> "read_grid", name |-> name, order |-> order,
                      ret |-> r.ret, consulted |-> r.consulted, log |-> r.log]
    /\ UNCHANGED <<fs, parent_fh, nopen, present, fdfKeys, sparse>>

SpecGrid == InitGrid /\ [][ReadGrid]_vars

IsGridCall == call # NoCall /\ call.op = "read_grid"

\* the per-quantity companion file of the grid a call names, if it names one
GridFileOf(name) == grid_nc_file(grid_names_grid_nc(str_lower(name)))

\* C22: read_grid(name, order=['grid.nc']), for a name of the per-quantity
\* table in any spelling and with the file <MappedName>.grid.nc present,
\* returns the grid read from that file, not None and not an exception.
C22_GridFromCompanion ==
    (/\ IsGridCall
     /\ call.order = <<"grid.nc">>
     /\ ~IsRaise(GridFileOf(call.name))
     /\ GridFileOf(call.name).v \in present) =>
        /\ ~IsRaise(call.ret)
        /\ call.ret # None
        /\ call.ret.k = "grid"
        /\ call.ret.src = GridFileOf(call.name).v


(***************************************************************************)
(* write_supercell and write_geometry.  A number held in memory is a       *)
(* fraction n / d with d > 0; the text written for it is made of           *)
(* characters, as format() makes it.                                       *)
(***************************************************************************)
RECURSIVE gcd(_, _)
gcd(a, b) == IF b = 0 THEN a ELSE gcd(b, a % b)

abs(n) == IF n < 0 THEN 0 - n ELSE n

\* the fraction n / d in lowest terms
Rat(n, d) ==
    LET g == gcd(abs(n), d) IN [n |-> n \div g, d |-> d \div g]

\* a * b, the common factors taken out before the products are made
rat_mul(a, b) ==
    LET p == Rat(a.n, b.d)
        q == Rat(b.n, a.d)
    IN  [n |-> p.n * q.n, d |-> p.d * q.d]

\* a / b for b > 0
rat_div(a, b) == rat_mul(a, [n |-> b.d, d |-> b.n])

rat_minus(a, b) == Rat(a.n * b.d - b.n * a.d, a.d * b.d)

rat_le(a, b) == a.n * b.d <= b.n * a.d

RECURSIVE pow10(_)
pow10(p) == IF p = 0 THEN 1 ELSE 10 * pow10(p - 1)

\* sisl.unit.siesta.unit_convert(from, to) for the units of length
unit_convert(from, to) ==
    IF from = to THEN Rat(1, 1)
    ELSE IF from = <<"B", "o", "h", "r">> THEN Rat(529177, 1000000)
    ELSE Rat(1000000, 529177)

\* str(n) for n >= 0
RECURSIVE str_nat(_)
str_nat(n) == IF n < 10 THEN <<DigitSeq[n + 1]>> ELSE str_nat(n \div 10) \o <<DigitSeq[(n % 10) + 1]>>

\* the digits of n in p places, zeros in front
RECURSIVE zfill(_, _)
zfill(n, p) == IF p = 0 THEN <<>> ELSE zfill(n \div 10, p - 1) \o <<DigitSeq[(n % 10) + 1]>>

\* the whole number nearest to |q| * 10^p, a tie going to the even one
nearest(q, p) ==
    LET s == rat_mul([n |-> abs(q.n), d |-> q.d], [n |-> pow10(p), d |-> 1])
        k == s.n \div s.d
        r == s.n % s.d
    IN  IF 2 * r > s.d \/ (2 * r = s.d /\ k % 2 = 1) THEN k + 1 ELSE k

\* the precision p of a format specification '.pf'
precision(fmt) == to_nat(SubSeq(fmt, Find(fmt, {"."}, TRUE, 1) + 1, Len(fmt) - 1), 0)

\* the width w of a format specification 'w.pf', 0 when it has none
width(fmt) == to_nat(SubSeq(fmt, 1, Find(fmt, {"."}, TRUE, 1) - 1), 0)

\* ' ' * n
RECURSIVE spaces(_)
spaces(n) == IF n <= 0 THEN <<>> ELSE <<" ">> \o spaces(n - 1)

\* '{:.pf}'.format(q)
format_f(q, p) ==
    (IF q.n < 0 THEN <<"-">> ELSE <<>>)
        \o str_nat(nearest(q, p) \div pow10(p)) \o <<".">> \o zfill(nearest(q, p) % pow10(p), p)

\* '{:fmt}'.format(q): a number is set to the right of its field
format(q, fmt) ==
    spaces(width(fmt) - Len(format_f(q, precision(fmt)))) \o format_f(q, precision(fmt))

\* str.upper() on one character
upper_char(c) ==
    IF \E i \in 1..Len(LowerCase) : LowerCase[i] = c
    THEN UpperCase[CHOOSE i \in 1..Len(LowerCase) : LowerCase[i] = c]
    ELSE c

\* str.capitalize()
capitalize(s) ==
    [i \in 1..Len(s) |-> IF i = 1 THEN upper_char(s[i]) ELSE lower_char(s[i])]

\* fmt_str.format(*row * conv) of write_supercell: ' {0:fmt} {1:fmt} {2:fmt}'
format_row(row, conv, fmt) ==
    <<" ">> \o format(rat_mul(row[1], conv), fmt) \o <<" ">> \o format(rat_mul(row[2], conv), fmt)
        \o <<" ">> \o format(rat_mul(row[3], conv), fmt)

\* the unit write_supercell writes the cell in
cell_unit(unit) ==
    IF capitalize(unit) \in {<<"A", "n", "g">>, <<"B", "o", "h", "r">>} THEN capitalize(unit)
    ELSE <<"A", "n", "g">>

\* write_supercell(sc, fmt, unit=unit): the lines written
write_supercell(sc, fmt, unit) ==
    << <<"L", "a", "t", "t", "i", "c", "e", "C", "o", "n", "s", "t", "a", "n", "t", " ", "1", ".", "0", " ">> \o cell_unit(unit),
       <<"%", "b", "l", "o", "c", "k", " ", "L", "a", "t", "t", "i", "c", "e", "V", "e", "c", "t", "o", "r", "s">>,
       format_row(sc[1], unit_convert(<<"A", "n", "g">>, cell_unit(unit)), fmt),
       format_row(sc[2], unit_convert(<<"A", "n", "g">>, cell_unit(unit)), fmt),
       format_row(sc[3], unit_convert(<<"A", "n", "g">>, cell_unit(unit)), fmt),
       <<"%", "e", "n", "d", "b", "l", "o", "c", "k", " ", "L", "a", "t", "t", "i", "c", "e", "V", "e", "c", "t", "o", "r", "s">> >>


\* the pieces ss[lo], ..., ss[hi] one after the other
RECURSIVE flatten(_, _, _)
flatten(ss, lo, hi) ==
    IF lo > hi THEN <<>>
    ELSE IF lo = hi THEN ss[lo]
    ELSE flatten(ss, lo, (lo + hi) \div 2) \o flatten(ss, ((lo + hi) \div 2) + 1, hi)

\* the last element of the run of consecutive numbers of lst that starts at i
RECURSIVE run_end(_, _)
run_end(lst, i) ==
    IF i < Len(lst) /\ lst[i + 1] = lst[i] + 1 THEN run_end(lst, i + 1) ELSE i

\* a run of three or more numbers is written 'a-b', a shorter one in full
list2str_piece(lst, i, j) ==
    IF j >= i + 2 THEN str_nat(lst[i]) \o <<"-">> \o str_nat(lst[j])
    ELSE IF j = i + 1 THEN str_nat(lst[i]) \o <<",", " ">> \o str_nat(lst[j])
    ELSE str_nat(lst[i])

\* sisl.utils.ranges.list2str on a sorted list: its runs, joined by ', '
list2str(lst) ==
    LET starts == SelectSeq([i \in 1..Len(lst) |-> i],
                            LAMBDA i : i = 1 \/ lst[i] # lst[i - 1] + 1)
        pieces == [k \in 1..Len(starts) |->
                      (IF k = 1 THEN <<>> ELSE <<",", " ">>)
                          \o list2str_piece(lst, starts[k], run_end(lst, starts[k]))]
    IN  flatten(pieces, 1, Len(pieces))

\* str.replace('-', ' -- ')
dashes_spaced(s) ==
    flatten([i \in 1..Len(s) |-> IF s[i] = "-" THEN <<" ", "-", "-", " ">> ELSE <<s[i]>>], 1, Len(s))

\* the four classes of constraints, in the order of "for d in range(4)"
ConstraintNames ==
    << <<"C", "O", "N", "S", "T", "R", "A", "I", "N">>,
       <<"C", "O", "N", "S", "T", "R", "A", "I", "N", "-", "x">>,
       <<"C", "O", "N", "S", "T", "R", "A", "I", "N", "-", "y">>,
       <<"C", "O", "N", "S", "T", "R", "A", "I", "N", "-", "z">> >>

ConstraintAppend ==
    << <<>>, <<" ", "1", ".", " ", "0", ".", " ", "0", ".">>,
       <<" ", "0", ".", " ", "1", ".", " ", "0", ".">>,
       <<" ", "0", ".", " ", "0", ".", " ", "1", ".">> >>

\* the longest index string that write_geometry writes
MaxIdxLen == 200

\* idx = list2str(geom.names[n] + 1).replace('-', ' -- ')
constraint_idx(names, d) ==
    dashes_spaced(list2str([i \in 1..Len(names[ConstraintNames[d]]) |-> names[ConstraintNames[d]][i] + 1]))

\* def write_block(atoms, append, write_block): the lines written
write_block(atoms, append, _write_block) ==
    (IF _write_block
     THEN << <<>>, <<"#", " ", "C", "o", "n", "s", "t", "r", "a", "i", "n", "t", "s">>,
             <<"%", "b", "l", "o", "c", "k", " ", "G", "e", "o", "m", "e", "t", "r", "y", ".", "C", "o", "n", "s", "t", "r", "a", "i", "n", "t", "s">> >>
     ELSE <<>>)
        \o << <<" ", "a", "t", "o", "m", " ", "[">> \o atoms \o <<"]">> \o append >>

\* the loop over the classes that ends at the first class that is too long
RECURSIVE write_constraintsUntilLong(_, _, _)
write_constraintsUntilLong(names, d, _write_block) ==
    IF d > 4
    THEN [lines |-> IF ~_write_block THEN << <<"%", "e", "n", "d", "b", "l", "o", "c", "k">> >> ELSE <<>>,
          info |-> <<>>]
    ELSE IF ConstraintNames[d] \notin DOMAIN names
    THEN write_constraintsUntilLong(names, d + 1, _write_block)
    ELSE IF Len(constraint_idx(names, d)) > MaxIdxLen
    THEN LET rest == write_constraintsUntilLong(names, 5, _write_block)
         IN  [lines |-> rest.lines, info |-> <<ConstraintNames[d]>> \o rest.info]
    ELSE LET rest == write_constraintsUntilLong(names, d + 1, FALSE)
         IN  [lines |-> write_block(constraint_idx(names, d), ConstraintAppend[d], _write_block) \o rest.lines,
              info |-> rest.info]

\* "for d in range(4): ..." of write_geometry from class d on, and the closing
\* "if not _write_block": the lines written and the classes info() named
RECURSIVE write_constraints(_, _, _)
write_constraints(names, d, _write_block) ==
    IF d > 4
    THEN [lines |-> IF ~_write_block THEN << <<"%", "e", "n", "d", "b", "l", "o", "c", "k">> >> ELSE <<>>,
          info |-> <<>>]
    ELSE IF ConstraintNames[d] \notin DOMAIN names
    THEN write_constraints(names, d + 1, _write_block)
    ELSE IF Len(constraint_idx(names, d)) > MaxIdxLen
    THEN LET rest == write_constraints(names, d + 1, _write_block)
         IN  [lines |-> rest.lines, info |-> <<ConstraintNames[d]>> \o rest.info]
    ELSE LET rest == write_constraints(names, d + 1, FALSE)
         IN  [lines |-> write_block(constraint_idx(names, d), ConstraintAppend[d], _write_block) \o rest.lines,
              info |-> rest.info]

\* unit in ['Frac', 'Fractional']
is_fractional(unit) ==
    capitalize(unit) \in {<<"F", "r", "a", "c">>, <<"F", "r", "a", "c", "t", "i", "o", "n", "a", "l">>}

\* geom.fxyz: the positions in units of the cell vectors; the cells of the
\* model are orthorhombic, where it is xyz[ia][i] / cell[i][i]
fxyz(geom) ==
    [ia \in 1..Len(geom.xyz) |-> [i \in 1..3 |-> rat_div(geom.xyz[ia][i], geom.sc[i][i])]]

\* geom.xyz * conv
xyz_conv(geom, conv) ==
    [ia \in 1..Len(geom.xyz) |-> [i \in 1..3 |-> rat_mul(geom.xyz[ia][i], conv)]]

\* xyz.max() and xyz.min() of geom.xyz * conv; conv is positive, so they are
\* the largest and the smallest entry of geom.xyz times conv
xyz_max(geom, conv) ==
    LET all == {geom.xyz[ia][i] : ia \in 1..Len(geom.xyz), i \in 1..3}
    IN  rat_mul(CHOOSE q \in all : \A r \in all : rat_le(r, q), conv)

xyz_min(geom, conv) ==
    LET all == {geom.xyz[ia][i] : ia \in 1..Len(geom.xyz), i \in 1..3}
    IN  rat_mul(CHOOSE q \in all : \A r \in all : rat_le(q, r), conv)

\* fmt = str(max(c_min, c_max)) + fmt when fmt starts with '.'
fmt_aligned(geom, conv, fmt) ==
    LET c_max == Len(format(xyz_max(geom, conv), fmt))
        c_min == Len(format(xyz_min(geom, conv), fmt))
    IN  IF fmt[1] = "." THEN str_nat(IF c_min > c_max THEN c_min ELSE c_max) \o fmt ELSE fmt

\* the line of an atom with the species counted from zero
format_atomFromZero(xyz, isp, ia, tag, fmt, n) ==
    <<" ">> \o format(xyz[1], fmt) \o <<" ">> \o format(xyz[2], fmt) \o <<" ">> \o format(xyz[3], fmt)
        \o <<" ">> \o str_nat(isp) \o <<" ", "#", " ">>
        \o spaces(n - Len(str_nat(ia))) \o str_nat(ia) \o <<":", " ">> \o tag

\* ' {3:fmt} {4:fmt} {5:fmt} {0} # {1:Nd}: {2}'.format(isp + 1, ia + 1, a.tag, *xyz[ia, :])
format_atom(xyz, isp, ia, tag, fmt, n) ==
    <<" ">> \o format(xyz[1], fmt) \o <<" ">> \o format(xyz[2], fmt) \o <<" ">> \o format(xyz[3], fmt)
        \o <<" ">> \o str_nat(isp + 1) \o <<" ", "#", " ">>
        \o spaces(n - Len(str_nat(ia))) \o str_nat(ia) \o <<":", " ">> \o tag

\* the lines of the block of the atoms
write_atoms(geom, xyz, fmt) ==
    [ia \in 1..Len(geom.xyz) |->
        format_atom(xyz[ia], geom.specie[ia], ia, geom.atoms[geom.specie[ia] + 1].tag, fmt,
                    Len(str_nat(Len(geom.xyz))))]

\* ' {0} {1} {2}'.format(i + 1, a.Z, a.tag) for the species
write_species(geom) ==
    [i \in 1..Len(geom.atoms) |->
        <<" ">> \o str_nat(i) \o <<" ">> \o str_nat(geom.atoms[i].Z) \o <<" ">> \o geom.atoms[i].tag]

\* write_geometry(geom, fmt, unit=unit): the lines written and the messages
write_geometry(geom, fmt, unit) ==
    LET frac == is_fractional(unit)
        conv == IF frac THEN Rat(1, 1) ELSE unit_convert(<<"A", "n", "g">>, capitalize(unit))
        xyz == IF frac THEN fxyz(geom) ELSE xyz_conv(geom, conv)
        afmt == IF frac THEN fmt ELSE fmt_aligned(geom, conv, fmt)
        tail == write_constraints(geom.names, 1, TRUE)
    IN  [lines |->
            write_supercell(geom.sc, fmt, unit)
            \o << <<>>, <<"N", "u", "m", "b", "e", "r", "O", "f", "A", "t", "o", "m", "s", " ">> \o str_nat(Len(geom.xyz)),
                  <<"A", "t", "o", "m", "i", "c", "C", "o", "o", "r", "d", "i", "n", "a", "t", "e", "s", "F", "o", "r", "m", "a", "t", " ">>
                      \o (IF frac THEN <<"F", "r", "a", "c", "t", "i", "o", "n", "a", "l">> ELSE capitalize(unit)),
                  <<"%", "b", "l", "o", "c", "k", " ", "A", "t", "o", "m", "i", "c", "C", "o", "o", "r", "d", "i", "n", "a", "t", "e", "s", "A", "n", "d", "A", "t", "o", "m", "i", "c", "S", "p", "e", "c", "i", "e", "s">> >>
            \o write_atoms(geom, xyz, afmt)
            \o << <<"%", "e", "n", "d", "b", "l", "o", "c", "k", " ", "A", "t", "o", "m", "i", "c", "C", "o", "o", "r", "d", "i", "n", "a", "t", "e", "s", "A", "n", "d", "A", "t", "o", "m", "i", "c", "S", "p", "e", "c", "i", "e", "s">>,
                  <<>>,
                  <<"N", "u", "m", "b", "e", "r", "O", "f", "S", "p", "e", "c", "i", "e", "s", " ">> \o str_nat(Len(geom.atoms)),
                  <<"%", "b", "l", "o", "c", "k", " ", "C", "h", "e", "m", "i", "c", "a", "l", "S", "p", "e", "c", "i", "e", "s", "L", "a", "b", "e", "l">> >>
            \o write_species(geom)
            \o << <<"%", "e", "n", "d", "b", "l", "o", "c", "k", " ", "C", "h", "e", "m", "i", "c", "a", "l", "S", "p", "e", "c", "i", "e", "s", "L", "a", "b", "e", "l">> >>
            \o tail.lines,
         info |-> tail.info]


\* _r_basis_fdf on the text of the primary file: the species by their index
basis_fdf(F) ==
    LET spcs == get(F, <<"C", "h", "e", "m", "i", "c", "a", "l", "S", "p", "e", "c", "i", "e", "s", "L", "a", "b", "e", "l">>, None)
    IN  IF spcs = None THEN None
        ELSE IF IsRaise(spcs) THEN spcs
        ELSE IF spcs.k # "blk" THEN Raise("AttributeError")
        ELSE LET toks == [i \in 1..Len(spcs.v) |-> split(spcs.v[i])]
                 at(idx) == {i \in 1..Len(toks) : int_value(toks[i][1]).v - 1 = idx}
             IN  IF \E i \in 1..Len(toks) :
                        \/ Len(toks[i]) < 3
                        \/ IsRaise(int_value(toks[i][1]))
                        \/ IsRaise(int_value(toks[i][2]))
                 THEN Raise("ValueError")
                 ELSE IF \E i \in 1..Len(toks) : int_value(toks[i][1]).v - 1 >= Len(toks)
                 THEN Raise("IndexError")
                 ELSE List([n \in 1..Len(toks) |->
                              IF at(n - 1) = {} THEN None
                              ELSE LET i == CHOOSE i \in at(n - 1) : \A j \in at(n - 1) : j <= i
                                   IN  [Z |-> int_value(toks[i][2]).v, tag |-> strip(toks[i][3])]])

\* ---- the geometries written and read back
NoNames == <<>>

Geom(sc, atoms, specie, xyz, names) ==
    [sc |-> sc, atoms |-> atoms, specie |-> specie, xyz |-> xyz, names |-> names]

\* an orthorhombic cell of sides a, b and c
Ortho(a, b, c) ==
    << <<a, Rat(0, 1), Rat(0, 1)>>, <<Rat(0, 1), b, Rat(0, 1)>>, <<Rat(0, 1), Rat(0, 1), c>> >>

RoundCells == {Ortho(Rat(2, 1), Rat(2, 1), Rat(3, 2)), Ortho(Rat(1, 1), Rat(5, 4), Rat(2, 1))}

RoundPoints ==
    << <<Rat(0, 1), Rat(0, 1), Rat(0, 1)>>, <<Rat(1, 3), Rat(-5, 4), Rat(1, 8)>>,
       <<Rat(3, 2), Rat(1, 2), Rat(-1, 1000)>> >>

Hydrogen == [Z |-> 1, tag |-> <<"H">>]
Carbon == [Z |-> 6, tag |-> <<"C">>]
CarbonSurface == [Z |-> 6, tag |-> <<"C", "_", "s", "u", "r", "f">>]

\* the species of a geometry and the species of each of its atoms
RoundSpecies ==
    {[atoms |-> <<Hydrogen>>, specie |-> <<0>>],
     [atoms |-> <<Carbon, CarbonSurface>>, specie |-> <<0, 1>>],
     [atoms |-> <<Hydrogen, Carbon>>, specie |-> <<1, 1, 0>>] }

RoundGeometries ==
    {Geom(sc, sp.atoms, sp.specie,
          [ia \in 1..Len(sp.specie) |-> RoundPoints[((p + ia) % Len(RoundPoints)) + 1]], NoNames) :
        sc \in RoundCells, sp \in RoundSpecies, p \in 1..Len(RoundPoints)}

\* the format specifications and the units callers pass
RoundFormats == {<<".", "2", "f">>, <<".", "3", "f">>}
RoundUnits == {<<"A", "n", "g">>, <<"B", "o", "h", "r">>, <<"F", "r", "a", "c", "t", "i", "o", "n", "a", "l">>, <<"b", "o", "h", "r">>}

\* the labels write_geometry leaves in the primary file
WrittenKeys ==
    {"LatticeConstant", "LatticeVectors", "NumberOfAtoms", "AtomicCoordinatesFormat",
     "AtomicCoordinatesAndAtomicSpecies", "NumberOfSpecies", "ChemicalSpeciesLabel"}

InitRound ==
    /\ fs = (Main :> <<>>)
    /\ parent_fh = <<>>
    /\ nopen = 0
    /\ present = {}
    /\ fdfKeys = {}
    /\ sparse = None
    /\ call = NoCall

\* store.write_geometry(geom, fmt, unit=unit) on a store opened for writing
WriteGeometryOf(geoms, fmts, units) ==
    /\ call = NoCall
    /\ \E geom \in geoms, fmt \in fmts, unit \in units :
         \E w \in {write_geometry(geom, fmt, unit)} :
            /\ fs' = [fs EXCEPT ![Main] = w.lines]
            /\ call' = [op |-> "write_geometry", geom |-> geom, fmt |-> fmt, unit |-> unit,
                        info |-> w.info, ret |-> None]
    /\ fdfKeys' = WrittenKeys
    /\ UNCHANGED <<parent_fh, nopen, present, sparse>>

WriteGeometry == WriteGeometryOf(RoundGeometries, RoundFormats, RoundUnits)

\* store.read_geometry(order=['fdf']) on the file just written
ReadWritten ==
    /\ call # NoCall
    /\ call.op = "write_geometry"
    /\ \E empty \in Uninitialised :
         call' = [op |-> "read_written", geom |-> call.geom, fmt |-> call.fmt, unit |-> call.unit,
                  ret |-> geometry_fdf(fs, empty, TRUE), basis |-> basis_fdf(fs)]
    /\ UNCHANGED <<fs, parent_fh, nopen, present, fdfKeys, sparse>>

NextRound == WriteGeometry \/ ReadWritten

SpecRound == InitRound /\ [][NextRound]_vars

IsRoundTrip == call # NoCall /\ call.op = "read_written"

\* the number a float read from text stands for
rat_of(f) ==
    IF f.e >= 0 THEN Rat((IF f.neg THEN 0 - f.m ELSE f.m) * pow10(f.e), 1)
    ELSE Rat(IF f.neg THEN 0 - f.m ELSE f.m, pow10(0 - f.e))

\* the number a scaling read from text stands for
factor_of(s) ==
    IF s.k = "scaled" THEN rat_mul(rat_of(s.x), unit_convert(s.from, s.to)) ELSE rat_of(s)

\* q to the precision of fmt: the multiple of 10^-p nearest to q
rounded(q, fmt) ==
    Rat((IF q.n < 0 THEN 0 - 1 ELSE 1) * nearest(q, precision(fmt)), pow10(precision(fmt)))

\* the unit a call of write_geometry writes the positions in, None for fractions
RoundUnit == IF is_fractional(call.unit) THEN None ELSE Str(capitalize(call.unit))

\* the entry the writer put on paper for x, a length in Ang
Written(x, unit) ==
    rounded(rat_mul(x, unit_convert(<<"A", "n", "g">>, unit)), call.fmt)

\* C23: a geometry written by write_geometry with unit 'Ang', 'Bohr' or
\* 'Fractional' and read back from the primary file has the same cell, the
\* same number of atoms in the same order with the same species, and the same
\* positions, each number being the one written to the precision of the format
\* and scaled back by the inverse of the factor it was written with.
C23_RoundTrip ==
    IsRoundTrip =>
        /\ ~IsRaise(call.ret)
        /\ call.ret.k = "Geometry"
        \* the cell
        /\ rat_mul(factor_of(call.ret.sc.s), unit_convert(<<"A", "n", "g">>, cell_unit(call.unit))) = Rat(1, 1)
        /\ \A i \in 1..3 : \A j \in 1..3 :
              rat_of(call.ret.sc.cell.rows[i][j]) = Written(call.geom.sc[i][j], cell_unit(call.unit))
        \* the atoms, their order and their species
        /\ Len(call.ret.xyz) = Len(call.geom.xyz)
        /\ call.ret.atom = Val("basis", "fdf")
        /\ ~IsRaise(call.basis)
        /\ \A ia \in 1..Len(call.geom.xyz) :
              /\ call.ret.species[ia] + 1 \in 1..Len(call.basis.v)
              /\ call.basis.v[call.ret.species[ia] + 1] = call.geom.atoms[call.geom.specie[ia] + 1]
        \* the positions
        /\ \A ia \in 1..Len(call.geom.xyz) :
              /\ call.ret.xyz[ia].origo.v = Zeros
              /\ IF RoundUnit = None
                 THEN /\ call.ret.xyz[ia].dot = call.ret.sc
                      /\ factor_of(call.ret.xyz[ia].s) = Rat(1, 1)
                      /\ \A i \in 1..3 :
                            rat_of(call.ret.xyz[ia].coords[i]) = rounded(fxyz(call.geom)[ia][i], call.fmt)
                 ELSE /\ call.ret.xyz[ia].dot = None
                      /\ rat_mul(factor_of(call.ret.xyz[ia].s), unit_convert(<<"A", "n", "g">>, RoundUnit.v)) = Rat(1, 1)
                      /\ \A i \in 1..3 :
                            rat_of(call.ret.xyz[ia].coords[i]) = Written(call.geom.xyz[ia][i], RoundUnit.v)

C23_Witness ==
    /\ IsRoundTrip
    /\ call.unit = <<"B", "o", "h", "r">>
    /\ Len(call.geom.xyz) = 3
    /\ call.geom.xyz[1][1] = Rat(1, 3)
    /\ call.geom.atoms[2] = Carbon
    /\ ~IsRaise(call.ret)


(***************************************************************************)
(* The constraints that write_geometry writes.                             *)
(***************************************************************************)
\* the atoms of a class, counted from zero: a few atoms; every second atom up
\* to where the text of the indices is as long as is still written; and every
\* second atom up to where it is just too long
FewAtoms == <<0, 1, 2, 4>>
ManyAtoms == [i \in 1..51 |-> 2 * i - 1]
TooManyAtoms == [i \in 1..52 |-> 2 * i - 2]

ConstraintSets == {FewAtoms, ManyAtoms, TooManyAtoms}

\* the named indices of a geometry: some of the four classes, each with atoms
ConstraintChoices ==
    UNION {[{ConstraintNames[d] : d \in D} -> ConstraintSets] : D \in SUBSET (1..4)}

\* a chain of atoms of one species, long enough to hold every named atom
Chain(names) ==
    Geom(Ortho(Rat(2, 1), Rat(2, 1), Rat(2, 1)), <<Carbon>>,
         [ia \in 1..(TooManyAtoms[Len(TooManyAtoms)] + 2) |-> 0],
         [ia \in 1..(TooManyAtoms[Len(TooManyAtoms)] + 2) |-> <<Rat(ia % 4, 2), Rat(0, 1), Rat(1, 4)>>],
         names)

ConstrainedGeometries == {Chain(names) : names \in ConstraintChoices}

\* store.write_geometry(geom, fmt, unit=unit) of a geometry with constraints
WriteConstrained ==
    WriteGeometryOf(ConstrainedGeometries, {<<".", "2", "f">>}, {<<"A", "n", "g">>})

SpecConstraints == InitRound /\ [][WriteConstrained]_vars

IsWriteCall == call # NoCall /\ call.op = "write_geometry"

Classes == <<1, 2, 3, 4>>

\* the classes of the geometry written, and of them those whose text fits
Named(d) == ConstraintNames[d] \in DOMAIN call.geom.names
Fits(d) == Named(d) /\ Len(constraint_idx(call.geom.names, d)) <= MaxIdxLen
Emitted == SelectSeq(Classes, Fits)
Skipped == SelectSeq(Classes, LAMBDA d : Named(d) /\ ~Fits(d))

Opener == <<"%", "b", "l", "o", "c", "k", " ", "G", "e", "o", "m", "e", "t", "r", "y", ".", "C", "o", "n", "s", "t", "r", "a", "i", "n", "t", "s">>
Closer == <<"%", "e", "n", "d", "b", "l", "o", "c", "k">>

\* what follows the block of the species in the file written
AfterSpecies ==
    LET end == CHOOSE i \in 1..Len(fs[Main]) :
                  fs[Main][i] = <<"%", "e", "n", "d", "b", "l", "o", "c", "k", " ", "C", "h", "e", "m", "i", "c", "a", "l", "S", "p", "e", "c", "i", "e", "s", "L", "a", "b", "e", "l">>
    IN  SubSeq(fs[Main], end + 1, Len(fs[Main]))

\* the lines of the file written that are l
CountOf(l) == Cardinality({i \in 1..Len(fs[Main]) : fs[Main][i] = l})

\* C24: for every subset of the four classes, write_geometry writes after
\* the species one line per class whose index text has at most 200 characters,
\* in the order of the classes, between one opener and one closer; a class with
\* a longer text is left out with a message and the others are still written;
\* opener and closer are both absent when no class is written.
C24_ConstraintsBlock ==
    IsWriteCall =>
        /\ call.info = [i \in 1..Len(Skipped) |-> ConstraintNames[Skipped[i]]]
        /\ CountOf(Opener) = (IF Emitted = <<>> THEN 0 ELSE 1)
        /\ CountOf(Closer) = (IF Emitted = <<>> THEN 0 ELSE 1)
        /\ IF Emitted = <<>> THEN AfterSpecies = <<>>
           ELSE /\ Len(AfterSpecies) = Len(Emitted) + 4
                /\ AfterSpecies[3] = Opener
                /\ AfterSpecies[Len(AfterSpecies)] = Closer
                /\ \A i \in 1..Len(Emitted) :
                      AfterSpecies[3 + i] =
                          <<" ", "a", "t", "o", "m", " ", "[">>
                              \o constraint_idx(call.geom.names, Emitted[i])
                              \o <<"]">> \o ConstraintAppend[Emitted[i]]

\* a class too long between two that are written, and one just short enough
C24_Witness ==
    /\ IsWriteCall
    /\ DOMAIN call.geom.names = {ConstraintNames[d] : d \in 1..4}
    /\ call.geom.names[ConstraintNames[1]] = FewAtoms
    /\ call.geom.names[ConstraintNames[2]] = TooManyAtoms
    /\ call.geom.names[ConstraintNames[3]] = ManyAtoms
    /\ Len(constraint_idx(call.geom.names, 3)) = MaxIdxLen
    /\ Len(constraint_idx(call.geom.names, 2)) > MaxIdxLen
    /\ call.info = <<ConstraintNames[2]>>
    /\ Len(AfterSpecies) = 7


\* C25: without a supercell, read_hessian assigns the element
\* H[3*ia+i, 3*ja+j] = (FC[ia,i,fja,j] + FC[ja,j,fia,i]) / sqrt(4*m[fia]*m[fja])
\* for every ordered pair (ia, ja) of displaced atoms and all nine (i, j).
C25_EveryPairPopulated ==
    (IsHessianCall /\ call.supercell = <<1, 1, 1>> /\ call.ret = Val("hessian", "FC")) =>
        \A ia \in 0..(Len(call.fc_atoms) - 1) : \A ja \in 0..(Len(call.fc_atoms) - 1) :
           \A i \in 0..2 : \A j \in 0..2 :
              [row |-> 3 * ia + i, col |-> 3 * ja + j,
               sum |-> << <<ia, i, call.fc_atoms[ja + 1], j>>, <<ja, j, call.fc_atoms[ia + 1], i>> >>,
               m |-> <<call.fc_atoms[ia + 1], call.fc_atoms[ja + 1]>>] \in call.H


(***************************************************************************)
(* fdfSileSiesta.includes.                                                 *)
(***************************************************************************)
\* def add(f): includes.append(f) unless it is there
add(includes, f) == IF In(_tofile(f), includes) THEN includes ELSE Append(includes, _tofile(f))

\* "l = self.readline(); while l == '': if self._popfile(): l = self.readline()
\* else: break": the line and the store after it
RECURSIVE next_line(_, _)
next_line_popped(F, st, r) ==
    IF r.line = <<>> /\ Len(st.stack) > 0 THEN next_line(F, _popfile(st))
    ELSE [line |-> r.line, st |-> [st EXCEPT !.fh = r.fh]]

next_line(F, st) == next_line_popped(F, st, readline(F, st.fh))

\* the body of "while l != ''" on the words ls of the line: the list and the
\* store after it, or the error raised
includes_line(F, st, ls, includes) ==
    IF Len(ls) = 0 THEN Raise("IndexError")
    ELSE IF str_lower(ls[1]) = INCLUDE
    THEN (IF Len(ls) < 2 THEN Raise("IndexError")
          ELSE [k |-> "step", includes |-> add(includes, ls[2]), st |-> _pushfile(F, st, ls[2])])
    ELSE IF In(PIPE, ls)
    THEN (IF index(ls, PIPE) = Len(ls) THEN Raise("IndexError")
          ELSE [k |-> "step", includes |-> add(includes, ls[index(ls, PIPE) + 1]), st |-> st])
    ELSE [k |-> "step", includes |-> includes, st |-> st]

\* "while l != '': ..." with l the line at hand
RECURSIVE includes_loop(_, _, _, _)
includes_next(F, st, step) ==
    IF IsRaise(step) THEN [ret |-> step, st |-> st]
    ELSE \* one read of the next line, shared by the test and the next turn
         LET nl == next_line(F, step.st)
         IN  includes_loop(F, nl.st, nl.line, step.includes)

includes_loop(F, st, l, includes) ==
    IF l = <<>> THEN [ret |-> List(includes), st |-> st]
    ELSE includes_next(F, st, includes_line(F, st, split(l), includes))

\* includes(): self._seek(), then the loop from the first line
includes_read(F, st) ==
    LET first == readline(F, _seek(st).fh)
    IN  includes_loop(F, [_seek(st) EXCEPT !.fh = first.fh], first.line, <<>>)

\* store.includes() on a store that has not been used
Includes ==
    /\ call = NoCall
    /\ \E r \in {includes_read(fs, sile_enter(parent_fh, nopen))} :
         /\ call' = [op |-> "includes", ret |-> r.ret, warned |-> r.st.warned]
         /\ parent_fh' = r.st.stack
         /\ nopen' = r.st.n - 1
    /\ UNCHANGED <<fs, present, fdfKeys, sparse>>

SpecIncludes == InitLabel /\ [][Includes]_vars

IsIncludesCall == call # NoCall /\ call.op = "includes"

\* the files a line names: after %include, or after a '<'
NamedFiles(ws) ==
    IF Len(ws) >= 2 /\ str_lower(ws[1]) = INCLUDE THEN <<ws[2]>>
    ELSE IF In(PIPE, ws) /\ index(ws, PIPE) < Len(ws) THEN <<ws[index(ws, PIPE) + 1]>>
    ELSE <<>>

\* the files the lines of a traversal name, each once, in the order met
RECURSIVE NamedIn(_, _, _, _)
NamedIn(F, t, i, seen) ==
    IF i > Len(t) THEN seen
    ELSE LET line == LineAt(F, t[i])
             fsn == IF starts_with_list(line) THEN <<>> ELSE NamedFiles(split(line))
         IN  NamedIn(F, t, i + 1, IF fsn = <<>> \/ In(fsn[1], seen) THEN seen ELSE Append(seen, fsn[1]))

\* C26: includes() returns without an exception, for every document without
\* include cycles, the files named by %include directives in the primary file
\* and in every included file that exists, and the files named after a '<',
\* each once and in the order met; a missing file is listed and not entered.
C26_IncludesListed ==
    IsIncludesCall =>
        /\ ~IsRaise(call.ret)
        /\ call.ret = List(NamedIn(fs, traversal(fs, Main, 1), 1, <<>>))


\* C27: on every finite document with finite included files and no include
\* cycle, _read_label comes to an end: it returns a value, returns None or
\* raises, also when a %block of the label has no %endblock line before the end
\* of its file.
C27_ReadLabelEnds ==
    IsLabelCall => (call.ret = None \/ IsRaise(call.ret) \/ call.ret.k \in {"str", "blk"})


(***************************************************************************)
(* Documents with blocks of other labels.                                  *)
(***************************************************************************)
\* a block of another label whose body has a line that starts with the label
\* and a line that includes a file
S_body ==
    <<<<"%", "b", "l", "o", "c", "k", " ", "D", "a", "t", "a">>,
      <<"L", "a", "b", "e", "l", " ", "5">>,
      <<"%", "i", "n", "c", "l", "u", "d", "e", " ", "i", "n", "c">>,
      <<"%", "e", "n", "d", "b", "l", "o", "c", "k", " ", "D", "a", "t", "a">>>>

\* a block of another label whose body names files after '<' and %include
S_body_files ==
    <<<<"%", "b", "l", "o", "c", "k", " ", "D", "a", "t", "a">>,
      <<"O", "t", "h", "e", "r", " ", "<", " ", "e", "x", "t">>,
      <<"%", "i", "n", "c", "l", "u", "d", "e", " ", "n", "o", "f", "i", "l", "e">>,
      <<"%", "e", "n", "d", "b", "l", "o", "c", "k", " ", "D", "a", "t", "a">>>>

BodySnippets == {S_scalar, S_include, S_block, S_body, S_body_files}

BodyDocs == {Concat(ss) : ss \in SeqsUpTo(BodySnippets, MaxSnips)}

InitBody ==
    /\ fs \in {w @@ (Main :> d) : w \in Worlds, d \in BodyDocs}
    /\ parent_fh = <<>>
    /\ nopen = 0
    /\ present = {}
    /\ fdfKeys = {}
    /\ sparse = None
    /\ call = NoCall

SpecBody == InitBody /\ [][NextLabel]_vars

\* the line opens a block whose lines follow it in the file
IsOpener(line) ==
    /\ ~starts_with_list(line)
    /\ Len(Words(line)) >= 2
    /\ KeysOf(Words(line))[1] = BLOCK
    /\ ~In(PIPE, Words(line))

\* the places of file f from line i on that are not in the body of a block,
\* each included file at its directive; body tells that line i is in a body
RECURSIVE outside(_, _, _, _)
outside(F, f, i, body) ==
    IF i > Len(F[f]) THEN <<>>
    ELSE IF body THEN outside(F, f, i + 1, ~IsCloser(F[f][i]))
    ELSE <<[file |-> f, pos |-> i]>>
         \o (IF IsInclude(F, F[f][i]) THEN outside(F, Words(F[f][i])[2], 1, FALSE) ELSE <<>>)
         \o outside(F, f, i + 1, IsOpener(F[f][i]))

\* C28: the lines in the body of a %block of another label are not taken for
\* entries: the entry _read_label returns is a line outside every block body,
\* in the primary file or in a file included by a line outside every block
\* body (a body line that starts with the label is not the value, and a body
\* line with %include or '<' opens no file).
C28_BodiesNotEntries ==
    (IsLabelCall /\ call.ret # None /\ call.ret # Hang /\ ~IsRaise(call.ret)) =>
        In(call.at, outside(fs, Main, 1, FALSE))


(***************************************************************************)
(* set with a list (block) value.                                          *)
(***************************************************************************)
\* the loop of set over the lines of top_file when value is a list: top_file
\* was opened for writing, which empties it; the lines before the first line
\* with the key are written back, and at that line write() raises
RECURSIVE set_block_lines(_, _)
set_block_lines(lines, key) ==
    IF lines = <<>> THEN [lines |-> <<>>, ret |-> None]
    ELSE IF line_has_key(Head(lines), str_lower(key))
         THEN [lines |-> <<>>,
               ret |-> Raise("NotImplementedError: Currently blocks are not implemented in set!")]
         ELSE LET rest == set_block_lines(Tail(lines), key)
              IN  [lines |-> <<Head(lines)>> \o rest.lines, ret |-> rest.ret]

\* the list values set is called with
SetBlocks == { <<<<"1", " ", "2">>>>, <<<<"1", " ", "0">>, <<"0", " ", "1">>>> }

\* store.set(key, value, keep=keep) with a list value
SetBlock ==
    /\ IF call = NoCall THEN TRUE ELSE call.count < MaxSets
    /\ \E key \in SetKeys, value \in SetBlocks, keep \in BOOLEAN :
         \E found \in {sile_exit(_read_label(fs, sile_enter(parent_fh, nopen), key))} :
            /\ found.ret # Hang
            /\ \E w \in {set_block_lines(fs[set_top_file(found)], key)} :
                  /\ call' = [op |-> "set_block", key |-> key, value |-> value, keep |-> keep,
                              before |-> fs, file |-> set_top_file(found), ret |-> w.ret,
                              stack |-> found.st.stack, n |-> found.st.n,
                              count |-> IF call = NoCall THEN 1 ELSE call.count + 1]
                  /\ fs' = [fs EXCEPT ![set_top_file(found)] = w.lines]
    /\ parent_fh' = call'.stack
    /\ nopen' = call'.n
    /\ UNCHANGED <<present, fdfKeys, sparse>>

SpecSetBlock == InitSet /\ [][SetBlock]_vars

IsSetBlockCall == call # NoCall /\ call.op = "set_block"

\* C29: set(key, value) with a list value is rejected without side effects:
\* whenever the call raises NotImplementedError, every file, the primary file
\* and the included ones, holds what it held before the call.
C29_RejectedUntouched ==
    (IsSetBlockCall /\ IsRaise(call.ret)) => fs = call.before


(***************************************************************************)
(* The number of atoms of the geometry of the primary file.                *)
(***************************************************************************)
\* a block of atoms without lines
NoAtomLines ==
    <<<<"%", "b", "l", "o", "c", "k", " ", "A", "t", "o", "m", "i", "c", "C", "o", "o", "r", "d", "i", "n", "a", "t", "e", "s", "A", "n", "d", "A", "t", "o", "m", "i", "c", "S", "p", "e", "c", "i", "e", "s">>,
      <<"%", "e", "n", "d", "b", "l", "o", "c", "k", " ", "A", "t", "o", "m", "i", "c", "C", "o", "o", "r", "d", "i", "n", "a", "t", "e", "s", "A", "n", "d", "A", "t", "o", "m", "i", "c", "S", "p", "e", "c", "i", "e", "s">>>>

NoAtoms == <<<<"N", "u", "m", "b", "e", "r", "O", "f", "A", "t", "o", "m", "s", " ", "0">>>>

\* primary files with a cell, a block of atoms and a number of atoms
CountDocs ==
    {c \o f \o a \o n :
        c \in {d \in GeomCells : Len(d) = 6},
        f \in {d \in Formats : IF Len(d) = 0 THEN TRUE ELSE Len(d[1]) <= 34},
        a \in (AtomBlocks \ {<<>>}) \cup {NoAtomLines},
        n \in NumbersOfAtoms \cup {NoAtoms}}

InitCount ==
    /\ fs \in {(Main :> d) : d \in CountDocs}
    /\ parent_fh = <<>>
    /\ nopen = 0
    /\ present = {}
    /\ fdfKeys = {}
    /\ sparse = None
    /\ call = NoCall

SpecCount == InitCount /\ [][NextGeom]_vars

\* the lines of the block of atoms and the number of atoms to read
CountLines == get(fs, <<"A", "t", "o", "m", "i", "c", "C", "o", "o", "r", "d", "i", "n", "a", "t", "e", "s", "A", "n", "d", "A", "t", "o", "m", "i", "c", "S", "p", "e", "c", "i", "e", "s">>, None).v
CountAsked == get_or(fs, <<"N", "u", "m", "b", "e", "r", "O", "f", "A", "t", "o", "m", "s">>, IntVal(Len(CountLines))).v

\* C30: reading the geometry from the primary file never gives a geometry
\* without atoms: the call raises SileError when the number of atoms to read is
\* zero, with or without lines in the block, raises SileError when
\* NumberOfAtoms is more than the lines of the block, and reads the first
\* NumberOfAtoms lines otherwise.
C30_NeverEmpty ==
    IsGeomCall =>
        IF CountAsked = 0
        THEN call.ret = Raise("SileError: NumberOfAtoms has been determined to be zero, no atoms.")
        ELSE IF CountAsked > Len(CountLines)
        THEN call.ret = Raise("SileError: NumberOfAtoms is larger than the atoms defined in the blocks")
        ELSE ~IsRaise(call.ret) =>
                /\ Len(call.ret.xyz) = CountAsked
                /\ \A ia \in 1..CountAsked :
                      call.ret.xyz[ia].coords = atom_line(split(CountLines[ia])).xyz

====
